---- MODULE Spec2Model ----
(***************************************************************************)
(* A model of the agent "operating system" of ami0: the app registry, the  *)
(* home / in-app state machine, the response schema composed per state,    *)
(* the confirmation gate, the dispatch of one agent action and the event   *)
(* loop of OS.run (src/ami/os.py), with the echo, ssh and browser apps     *)
(* (src/ami/apps).                                                         *)
(*                                                                         *)
(* Representation.  A Python str is a sequence of one-character strings    *)
(* where the code looks inside it (echo messages, typed input lines, page  *)
(* text) and a sequence of string pieces where it only builds and passes   *)
(* it on (an f-string is the sequence of its literal and interpolated      *)
(* parts).  The empty str is <<>>; Python's None is the string None.       *)
(***************************************************************************)
EXTENDS Integers, Sequences, FiniteSets, TLC

VARIABLES
  pc,            \* where the process is: "setup", "loop", "crashed", "stopped" ("gate": none)
  apps,          \* OS.apps: the dict, as the insertion-ordered sequence of its items
  current_app,   \* OS.current_app: an app object or None
  conversation,  \* OS.conversation: the list of messages
  page,          \* BrowserApp.page.url: the page the browser shows
  calls,         \* number of Transport Adapter calls made by OS.run (history)
  direct,        \* number of handle_agent_action calls made outside OS.run (history)
  last,          \* what the last operation did (history)
  turns,         \* the iterations of OS.run that dispatched an action, in order (history)
  gate,          \* a call of get_user_confirmation on its own: its inputs and its outcome
  ssh_frame,     \* a call of SSHApp.handle_response on its own: its locals, command by command
  exec_frame,    \* a call of SSHApp._execute_ssh_command on its own: its locals and the channel
  echo_frame,    \* calls of EchoApp.handle_response on their own: the action and what came back
  legacy,        \* the legacy runtime (src/runtime/runtime.py): the locals of main()
  browser_frame  \* calls of BrowserApp's methods on their own: the last call and what it did

vars == <<pc, apps, current_app, conversation, page, calls, direct, last, turns, gate,
          ssh_frame, exec_frame, echo_frame, legacy, browser_frame>>

(***************************************************************************)
(* Bounds of the model.                                                    *)
(***************************************************************************)
MaxTurns == 2          \* iterations of the loop of OS.run
MaxScenarioTurns == 3  \* the same, when the registry is {echo} from the start
MaxDirect == 2         \* handle_agent_action calls by a caller other than run
MaxLines == 2          \* lines typed at the prompts of one get_user_confirmation call

None == "None"

(***************************************************************************)
(* The app objects.  e1 and e2 are two EchoApp instances with the default  *)
(* name, s1 an SSHApp, b1 a BrowserApp.  App declares the abstract method  *)
(* _get_raw_response_format (app.py:17-21) and none of the three classes   *)
(* defines it, so Python refuses to instantiate them as they stand; the    *)
(* objects here are instances with that method supplied.  OS never calls   *)
(* it.                                                                     *)
(***************************************************************************)
AppObjs == {"e1", "e2", "s1", "b1"}

AppKind(app) ==
  CASE app \in {"e1", "e2"} -> "echo"
    [] app = "s1" -> "ssh"
    [] app = "b1" -> "browser"

\* App.name, set by each app's __init__ default
AppName(app) == AppKind(app)

\* App.get_action_models(): the list of action models, by their type tag
get_action_models(app) ==
  CASE AppKind(app) = "echo" -> <<"echo">>
    [] AppKind(app) = "ssh" -> <<"ssh">>
    [] AppKind(app) = "browser" -> <<"navigate", "click">>

(***************************************************************************)
(* Characters: str.upper(), str.lower(), str.strip() over the alphabet the *)
(* model's strings use.                                                    *)
(***************************************************************************)
UpperChar(c) ==
  CASE c = "a" -> "A" [] c = "b" -> "B" [] c = "d" -> "D" [] c = "e" -> "E"
    [] c = "h" -> "H" [] c = "l" -> "L" [] c = "n" -> "N" [] c = "o" -> "O"
    [] c = "r" -> "R" [] c = "s" -> "S" [] c = "w" -> "W" [] c = "y" -> "Y"
    [] c = "x" -> "X" [] c = "i" -> "I"
    [] OTHER -> c

LowerChar(c) ==
  CASE c = "A" -> "a" [] c = "B" -> "b" [] c = "D" -> "d" [] c = "E" -> "e"
    [] c = "H" -> "h" [] c = "L" -> "l" [] c = "N" -> "n" [] c = "O" -> "o"
    [] c = "R" -> "r" [] c = "S" -> "s" [] c = "W" -> "w" [] c = "Y" -> "y"
    [] c = "X" -> "x" [] c = "I" -> "i"
    [] OTHER -> c

\* characters whose case mapping is not one character: U+00DF upper-cases to
\* "SS", U+0130 lower-cases to "i" followed by U+0307
SharpS == "U+00DF"

DottedI == "U+0130"

CombiningDot == "U+0307"

\* c.upper() of one character
UpperOf(c) == IF c = SharpS THEN <<"S", "S">> ELSE <<UpperChar(c)>>

\* c.lower() of one character
LowerOf(c) == IF c = DottedI THEN <<"i", CombiningDot>> ELSE <<LowerChar(c)>>

RECURSIVE Flatten(_)
\* ''.join(parts)
Flatten(parts) == IF parts = <<>> THEN <<>> ELSE Head(parts) \o Flatten(Tail(parts))

\* mutant: the uppercase effect leaves the message as it is
Upper_Unchanged(s) == s

\* str.upper() of a str given as its characters
Upper(s) == Flatten([i \in 1..Len(s) |-> UpperOf(s[i])])

\* str.lower()
Lower(s) == Flatten([i \in 1..Len(s) |-> LowerOf(s[i])])

\* s[::-1]
Reverse(s) == [i \in 1..Len(s) |-> s[Len(s) + 1 - i]]

IsSpace(c) == c \in {" ", "\t", "\n"}

RECURSIVE LStrip(_)
LStrip(s) == IF s # <<>> /\ IsSpace(Head(s)) THEN LStrip(Tail(s)) ELSE s

\* str.strip()
Strip(s) == Reverse(LStrip(Reverse(LStrip(s))))

(***************************************************************************)
(* The Confirmation Gate.  keys is what the user does at the prompt, one   *)
(* entry per call of input(): a typed line, or CtrlC (input() raises       *)
(* KeyboardInterrupt).  When keys runs out before a valid answer the call  *)
(* is still blocked in input().                                            *)
(***************************************************************************)
CtrlC == <<"^C">>

valid_yes == {<<"y">>, <<"y", "e", "s">>}
valid_no == {<<"n">>, <<"n", "o">>}

RECURSIVE get_user_confirmation_NoStrip(_, _)
\* mutant: the typed line is lowered but not stripped
get_user_confirmation_NoStrip(keys, default) ==
  IF keys = <<>> THEN [kind |-> "blocked", value |-> FALSE, reads |-> 0]
  ELSE IF Head(keys) = CtrlC THEN [kind |-> "interrupt", value |-> FALSE, reads |-> 1]
  ELSE LET typed == Lower(Head(keys))
           choice == IF typed = <<>> THEN Lower(default) ELSE typed
       IN IF choice \in valid_yes THEN [kind |-> "answer", value |-> TRUE, reads |-> 1]
          ELSE IF choice \in valid_no THEN [kind |-> "answer", value |-> FALSE, reads |-> 1]
          ELSE LET rest == get_user_confirmation_NoStrip(Tail(keys), default)
               IN [rest EXCEPT !.reads = @ + 1]

RECURSIVE get_user_confirmation(_, _)
\* get_user_confirmation: one round of its loop per entry of keys
get_user_confirmation(keys, default) ==
  IF keys = <<>> THEN [kind |-> "blocked", value |-> FALSE, reads |-> 0]
  ELSE IF Head(keys) = CtrlC THEN [kind |-> "interrupt", value |-> FALSE, reads |-> 1]
  ELSE LET typed == Lower(Strip(Head(keys)))
           choice == IF typed = <<>> THEN Lower(default) ELSE typed
       IN IF choice \in valid_yes THEN [kind |-> "answer", value |-> TRUE, reads |-> 1]
          ELSE IF choice \in valid_no THEN [kind |-> "answer", value |-> FALSE, reads |-> 1]
          ELSE LET rest == get_user_confirmation(Tail(keys), default)
               IN [rest EXCEPT !.reads = @ + 1]

\* no call of get_user_confirmation on its own
NoGate ==
  [keys |-> <<>>, default |-> <<"y">>, asked |-> FALSE,
   result |-> [kind |-> "blocked", value |-> FALSE, reads |-> 0]]

\* no call of SSHApp.handle_response on its own
NoSSHCall ==
  [commands |-> <<>>, outs |-> <<>>, results |-> <<>>, executed |-> <<>>,
   returned |-> FALSE, text |-> <<>>, image |-> None]

\* no call of SSHApp._execute_ssh_command on its own; exit_status is <<>> for
\* None and <<n>> for the int n, result is read once the call has returned;
\* connected says whether the client holds an open connection, closed counts
\* the calls of client.close()
NoExecCall ==
  [at |-> "idle", remote |-> [connects |-> TRUE, writes |-> <<>>, exits |-> FALSE, status |-> 0],
   recv |-> <<>>, recv_stderr |-> <<>>, status_ready |-> FALSE,
   stdout_str |-> <<>>, stderr_str |-> <<>>, exit_status |-> <<>>,
   result |-> [exit_code |-> 0, stdout |-> <<>>, stderr |-> <<>>],
   left |-> "no", raised |-> FALSE, sent_out |-> <<>>, sent_err |-> <<>>,
   connected |-> FALSE, closed |-> 0]

\* no call of EchoApp.handle_response on its own; ret is what the call on the
\* message returned, again what a second call on the result of the first did
NoEchoCall ==
  [message |-> <<>>, effect |-> "uppercase", called |-> FALSE, repeated |-> FALSE,
   ret |-> [kind |-> "none", text |-> <<>>, image |-> None],
   again |-> [kind |-> "none", text |-> <<>>, image |-> None]]

\* no call of a method of BrowserApp on its own. goto is the URL page.goto was
\* called with ("" for none), clicked the number of the element element.click()
\* was called on (0 for none), before the page the call started on
NoBrowserCall ==
  [calls |-> 0, op |-> "none", element |-> 0, url |-> "", before |-> "about:blank",
   kind |-> "none", exc |-> None, text |-> <<>>, goto |-> "", clicked |-> 0]

\* the legacy runtime is not running.  conversation, calls and removed (the
\* messages conversation.pop() took away) belong to main(); commands,
\* command_results, asked (the calls of get_user_confirmation, with what came
\* of each) and sent (the commands handed to execute_ssh_command) to a call of
\* execute_commands
NoLegacy ==
  [at |-> "idle", conversation |-> <<>>, calls |-> 0, removed |-> <<>>,
   commands |-> <<>>, command_results |-> <<>>, asked |-> <<>>, sent |-> <<>>]

(***************************************************************************)
(* The registry: OS.apps, a dict keyed by app name.                        *)
(***************************************************************************)
Keys(reg) == [i \in 1..Len(reg) |-> reg[i].name]

Range(seq) == {seq[i] : i \in 1..Len(seq)}

HasKey(reg, n) == n \in Range(Keys(reg))

\* self.apps[n], for a key the dict holds
Lookup(reg, n) == (CHOOSE i \in 1..Len(reg) : reg[i].name = n) (* first and only *)

\* mutant: the lookup hands out some app object of that name, registered or not
Item_AnyOfName(reg, n) == CHOOSE app \in AppObjs : AppName(app) = n

Item(reg, n) == reg[Lookup(reg, n)].app

\* mutant: the registry is a list and register_app appends to it
register_app_Appends(reg, app) == Append(reg, [name |-> AppName(app), app |-> app])

\* OS.register_app: self.apps[app.name] = app
register_app(reg, app) ==
  IF HasKey(reg, AppName(app))
  THEN [i \in 1..Len(reg) |->
          IF reg[i].name = AppName(app) THEN [name |-> AppName(app), app |-> app] ELSE reg[i]]
  ELSE Append(reg, [name |-> AppName(app), app |-> app])

(***************************************************************************)
(* Actions: the instances of the action models.  Every action carries all  *)
(* fields; an action model uses the ones it declares.                      *)
(***************************************************************************)
TextEffect == {"uppercase", "lowercase", "reverse", "alternating"}

BlankAction ==
  [type |-> "", app_name |-> "", message |-> <<>>, effect |-> "",
   commands |-> <<>>, url |-> "", element |-> 0]

LaunchAppAction(n) == [BlankAction EXCEPT !.type = "launch_app", !.app_name = n]
ExitAppAction == [BlankAction EXCEPT !.type = "exit_app"]
EchoAction(m, e) == [BlankAction EXCEPT !.type = "echo", !.message = m, !.effect = e]
SSHAction(cs) == [BlankAction EXCEPT !.type = "ssh", !.commands = cs]
NavigateAction(u) == [BlankAction EXCEPT !.type = "navigate", !.url = u]
ClickAction(k) == [BlankAction EXCEPT !.type = "click", !.element = k]

\* action.model_dump(), as the pieces of its JSON text
model_dump(a) ==
  <<"type", a.type>> \o
  (CASE a.type = "launch_app" -> <<"app_name", a.app_name>>
     [] a.type = "echo" -> <<"message">> \o a.message \o <<"effect", a.effect>>
     [] a.type = "ssh" -> <<"commands">> \o a.commands
     [] a.type = "navigate" -> <<"url", a.url>>
     [] a.type = "click" -> <<"element", ToString(a.element)>>
     [] OTHER -> <<>>)

(***************************************************************************)
(* The response schema.  A schema is the list of the variants of its       *)
(* action field; a variant is a type tag and, for launch_app, the set of   *)
(* values the Literal type of app_name admits.                             *)
(***************************************************************************)
\* mutant: the Literal is built from the names of all app classes, not the registered ones
launch_action_AllNames(app_names) ==
  [type |-> "launch_app", app_name |-> {AppName(app) : app \in AppObjs},
   literals |-> app_names]

\* the model LaunchAppAction with app_name: Literal[tuple(app_names)]; literals
\* is the tuple as listed, app_name the values it admits
launch_action(app_names) ==
  [type |-> "launch_app", app_name |-> Range(app_names), literals |-> app_names]

\* mutant: ExitAppAction is left out of the union
possible_actions_NoExit(cur) == get_action_models(cur)

\* mutant: the union holds the action models of every app class
possible_actions_AllApps(cur) == <<"echo", "ssh", "navigate", "click", "exit_app">>

\* possible_actions = [*self.current_app.get_action_models(), ExitAppAction]
possible_actions(cur) == get_action_models(cur) \o <<"exit_app">>

\* Union[tuple(models)] as the action field
UnionOf(models) ==
  [i \in 1..Len(models) |-> [type |-> models[i], app_name |-> {}, literals |-> <<>>]]

\* OS.current_response_format
current_response_format(reg, cur) ==
  IF cur = None
  THEN IF Keys(reg) = <<>>
       THEN [raised |-> TRUE, name |-> "ValueError", action |-> <<>>]
       ELSE [raised |-> FALSE, name |-> "HomeResponse", action |-> <<launch_action(Keys(reg))>>]
  ELSE [raised |-> FALSE, name |-> "AppResponse", action |-> UnionOf(possible_actions(cur))]

\* pydantic's validation of one decoded action against one variant
Validates(variant, a) ==
  /\ a.type = variant.type
  /\ a.type = "launch_app" => a.app_name \in variant.app_name
  /\ a.type = "echo" => a.effect \in TextEffect

\* the reply decodes against the schema: some member of the union accepts it
Conforms(schema, a) ==
  /\ ~schema.raised
  /\ \E i \in 1..Len(schema.action) : Validates(schema.action[i], a)

(***************************************************************************)
(* What a handler hands back: a returned value (a (text, image) tuple, or  *)
(* a bare str when tuple is FALSE) or a raised exception, and the page the *)
(* browser shows afterwards.                                               *)
(***************************************************************************)
Returned(text, image, pg) ==
  [kind |-> "return", tuple |-> TRUE, text |-> text, image |-> image,
   exc |-> None, error |-> <<>>, page |-> pg]

ReturnedStr(text, pg) ==
  [kind |-> "return", tuple |-> FALSE, text |-> text, image |-> None,
   exc |-> None, error |-> <<>>, page |-> pg]

\* exc is the exception's class, error its str()
Raised(exc, error, pg) ==
  [kind |-> "raise", tuple |-> FALSE, text |-> <<>>, image |-> None,
   exc |-> exc, error |-> error, page |-> pg]

(***************************************************************************)
(* EchoApp                                                                 *)
(***************************************************************************)
\* ''.join(c.upper() if i % 2 == 0 else c.lower() for i, c in enumerate(message))
Alternating(s) ==
  Flatten([i \in 1..Len(s) |-> IF (i - 1) % 2 = 0 THEN UpperOf(s[i]) ELSE LowerOf(s[i])])

\* mutant: the branches of uppercase and lowercase are swapped
EchoHandleResponse_Swapped(a, pg) ==
  IF a.type # "echo"
  THEN Raised("AttributeError", <<a.type, " object has no attribute message">>, pg)
  ELSE LET result ==
             CASE a.effect = "uppercase" -> Lower(a.message)
               [] a.effect = "lowercase" -> Upper(a.message)
               [] a.effect = "reverse" -> Reverse(a.message)
               [] a.effect = "alternating" -> Alternating(a.message)
       IN Returned(<<"Echo (", a.effect, "): ">> \o result, None, pg)

\* EchoApp.handle_response
EchoHandleResponse(a, pg) ==
  IF a.type # "echo"
  THEN Raised("AttributeError", <<a.type, " object has no attribute message">>, pg)
  ELSE LET result ==
             CASE a.effect = "uppercase" -> Upper(a.message)
               [] a.effect = "lowercase" -> Lower(a.message)
               [] a.effect = "reverse" -> Reverse(a.message)
               [] a.effect = "alternating" -> Alternating(a.message)
       IN Returned(<<"Echo (", a.effect, "): ">> \o result, None, pg)

(***************************************************************************)
(* SSHApp.  out is what the remote end does with one command: connect      *)
(* and run to an exit status with some output, or fail with an exception.  *)
(***************************************************************************)
\* Python's "x or y" on an int: 0 is falsy
PyOr(x, y) == IF x = 0 THEN y ELSE x

\* SSHApp._execute_ssh_command
execute_ssh_command(command, out) ==
  LET exit_status == IF out.exc THEN -1 ELSE out.status
      stderr_str == IF out.exc THEN <<"d", "o", "w", "n">> ELSE out.stderr
  IN [exit_code |-> PyOr(exit_status, -1), stdout |-> out.stdout, stderr |-> stderr_str]

RECURSIVE JoinLines(_)
\* "\n".join(lines)
JoinLines(lines) ==
  IF lines = <<>> THEN <<>>
  ELSE IF Len(lines) = 1 THEN lines[1]
  ELSE lines[1] \o <<"\n">> \o JoinLines(Tail(lines))

\* the lines SSHApp.handle_response formats for command i
CommandBlock(i, cmd, result) ==
  << <<"Command ", ToString(i), ": ", cmd>>,
     <<"Exit code: ", ToString(result.exit_code)>>,
     <<"Output:">>,
     IF Strip(result.stdout) # <<>> THEN Strip(result.stdout) ELSE <<"(no output)">> >>
  \o (IF Strip(result.stderr) # <<>> THEN << <<"Errors:">>, Strip(result.stderr) >> ELSE <<>>)
  \o << <<>> >>

RECURSIVE Blocks(_, _, _)
Blocks(i, commands, results) ==
  IF i > Len(commands) THEN <<>>
  ELSE CommandBlock(i, commands[i], results[i]) \o Blocks(i + 1, commands, results)

\* SSHApp.handle_response
SSHHandleResponse(a, outs, pg) ==
  IF a.type # "ssh"
  THEN Raised("AttributeError", <<a.type, " object has no attribute commands">>, pg)
  ELSE LET results == [i \in 1..Len(a.commands) |-> execute_ssh_command(a.commands[i], outs[i])]
       IN Returned(JoinLines(Blocks(1, a.commands, results)), None, pg)

(***************************************************************************)
(* BrowserApp, over a small web: the pages, the href attributes of their   *)
(* clickable elements ("" for a button, which has none) and their          *)
(* annotated text.                                                         *)
(***************************************************************************)
Urls == {"about:blank", "u1", "u2"}

\* page.query_selector_all("a[href], button, input[type=button], ..."), each
\* element by its href attribute, in document order
PageElements(url) ==
  CASE url = "u2" -> <<"./u1", "">>
    [] OTHER -> <<>>

\* urllib.parse.urljoin(base, href): an absolute reference replaces the base, a
\* relative one is resolved against the base's directory (the pages of this web
\* share one)
urljoin(base, href) ==
  CASE href \in Urls -> href
    [] href = "./u1" -> "u1"
    [] href = "./u2" -> "u2"
    [] OTHER -> base

\* BrowserApp.get_annotated_page_content
get_annotated_page_content(url) ==
  CASE url = "u1" -> <<"O", "K">>
    [] url = "u2" -> <<"A", " ", "<", "1", ">", "\n", "B", " ", "<", "2", ">">>
    [] OTHER -> <<>>

\* BrowserApp.navigate_to_url; loads says whether page.goto succeeds
navigate_to_url(url, loads, pg) ==
  IF url \in Urls /\ loads
  THEN ReturnedStr(get_annotated_page_content(url), url)
  ELSE Raised("Error", <<"page.goto failed ", url>>, pg)

\* what a call of click_element did: how it ended (ret), the URL it handed to
\* navigate_to_url ("" for none) and the number of the element it called
\* element.click() on (0 for none)
Clicked(ret, goto, clicked) == [ret |-> ret, goto |-> goto, clicked |-> clicked]

\* mutant: the element number is taken as a 0-based index
ClickElement_ZeroBased(element_number, loads, pg) ==
  LET elements == PageElements(pg)
  IN IF element_number < 0 \/ element_number >= Len(elements)
     THEN Clicked(Raised("ValueError", <<"Invalid element number ", ToString(element_number),
                                         ". Valid range: 1-", ToString(Len(elements))>>, pg),
                  "", 0)
     ELSE LET href == elements[element_number + 1]
          IN IF href # ""
             THEN Clicked(navigate_to_url(urljoin(pg, href), loads, pg), urljoin(pg, href), 0)
             ELSE Clicked(IF loads
                          THEN ReturnedStr(get_annotated_page_content(pg), pg)
                          ELSE Raised("TimeoutError", <<"Timeout exceeded">>, pg),
                          "", element_number + 1)

\* the body of BrowserApp.click_element, with what it did on the way; loads
\* says whether the page settles (page.goto, wait_for_load_state)
ClickElement(element_number, loads, pg) ==
  LET elements == PageElements(pg)
  IN IF element_number < 1 \/ element_number > Len(elements)
     THEN Clicked(Raised("ValueError", <<"Invalid element number ", ToString(element_number),
                                         ". Valid range: 1-", ToString(Len(elements))>>, pg),
                  "", 0)
     ELSE LET href == elements[element_number]
          IN IF href # ""
             THEN Clicked(navigate_to_url(urljoin(pg, href), loads, pg), urljoin(pg, href), 0)
             ELSE Clicked(IF loads
                          THEN ReturnedStr(get_annotated_page_content(pg), pg)
                          ELSE Raised("TimeoutError", <<"Timeout exceeded">>, pg),
                          "", element_number)

\* BrowserApp.click_element
click_element(element_number, loads, pg) == ClickElement(element_number, loads, pg).ret

\* BrowserApp.handle_response
BrowserHandleResponse(a, loads, pg) ==
  IF a.type = "navigate" THEN navigate_to_url(a.url, loads, pg)
  ELSE IF a.type = "click" THEN click_element(a.element, loads, pg)
  ELSE Raised("ValueError", <<"Unknown action type: ", a.type>>, pg)

\* app.handle_response(action): the method of the app's class
handle_response(app, a, env, pg) ==
  CASE AppKind(app) = "echo" -> EchoHandleResponse(a, pg)
    [] AppKind(app) = "ssh" -> SSHHandleResponse(a, env.ssh, pg)
    [] AppKind(app) = "browser" -> BrowserHandleResponse(a, env.loads, pg)

\* app.usage_prompt; the browser's names the page it shows
usage_prompt(app, pg) ==
  CASE AppKind(app) = "echo" -> <<"This is the Echo app.">>
    [] AppKind(app) = "ssh" -> <<"This is the SSH app.">>
    [] AppKind(app) = "browser" -> <<"This is the Browser app. Current URL: ", pg>>

\* app.description
description(app) ==
  CASE AppKind(app) = "echo" -> "A fun app that echoes back your messages."
    [] AppKind(app) = "ssh" -> "Execute commands on the remote server via SSH."
    [] AppKind(app) = "browser" -> "A text-based browser."

\* OS.system_prompt, the property; no line of OS reads it
system_prompt(reg, cur) ==
  IF cur = None
  THEN <<"Available apps:\n">>
       \o JoinLines([i \in 1..Len(reg) |->
                       <<"- ", reg[i].name, ": ", description(reg[i].app)>>])
  ELSE <<"You can return to the home screen by choosing to exit the app.">>

(***************************************************************************)
(* OS.handle_agent_action.  The outcome of one call: how it ended (kind:   *)
(* "return", "raise", "interrupt" for a KeyboardInterrupt passing through, *)
(* "blocked" while input() still waits), what it returned or raised, the   *)
(* fields of the OS afterwards, and what it did on the way: how often it   *)
(* asked the gate (asked), the answer it got, and the handler calls it     *)
(* made (handled).                                                         *)
(***************************************************************************)
Msg(role, content, image) == [role |-> role, content |-> content, image |-> image]

Outcome(kind, ret, cur, conv, asked, answer, handled) ==
  [kind |-> kind, tuple |-> ret.tuple, text |-> ret.text, image |-> ret.image,
   exc |-> ret.exc, error |-> ret.error, page |-> ret.page,
   current_app |-> cur, conversation |-> conv,
   asked |-> asked, answer |-> answer, handled |-> handled]

\* get_user_confirmation(prompt) with its default 'y'
Gate(keys) == get_user_confirmation(keys, <<"y">>)

\* the gate did not come back with an answer: still reading, or interrupted
NoAnswer(g, cur, conv, pg) ==
  Outcome(g.kind, Returned(<<>>, None, pg), cur, conv, 1,
          IF g.kind = "interrupt" THEN "interrupt" ELSE "none", <<>>)

\* return ("Action denied by user", None)
Denied(cur, conv, pg) ==
  Outcome("return", Returned(<<"Action denied by user">>, None, pg), cur, conv, 1, "decline", <<>>)

\* mutant: current_app is assigned before the user is asked
LaunchBranch_AssignFirst(reg, cur, conv, pg, a, keys) ==
  LET g == Gate(keys)
  IN IF g.kind # "answer" THEN NoAnswer(g, cur, conv, pg)
     ELSE IF ~HasKey(reg, a.app_name)
     THEN Outcome("raise", Raised("KeyError", <<"'", a.app_name, "'">>, pg),
                  cur, conv, 1, IF g.value THEN "accept" ELSE "decline", <<>>)
     ELSE IF ~g.value THEN Denied(Item(reg, a.app_name), conv, pg)
     ELSE Outcome("return", Returned(<<"Launched app: ", a.app_name>>, None, pg),
                  Item(reg, a.app_name),
                  Append(conv, Msg("system", usage_prompt(Item(reg, a.app_name), pg), None)),
                  1, "accept", <<>>)

\* mutant: launch_app takes the first registered app, whatever name was asked for
LaunchBranch_FirstApp(reg, cur, conv, pg, a, keys) ==
  LET g == Gate(keys)
  IN IF g.kind # "answer" THEN NoAnswer(g, cur, conv, pg)
     ELSE IF ~g.value THEN Denied(cur, conv, pg)
     ELSE IF ~HasKey(reg, a.app_name)
     THEN Outcome("raise", Raised("KeyError", <<"'", a.app_name, "'">>, pg),
                  cur, conv, 1, "accept", <<>>)
     ELSE Outcome("return", Returned(<<"Launched app: ", a.app_name>>, None, pg),
                  reg[1].app, Append(conv, Msg("system", usage_prompt(reg[1].app, pg), None)),
                  1, "accept", <<>>)

\* mutant: a confirmed launch of a name the registry does not hold reports a
\* launch and changes nothing
LaunchBranch_UnknownIgnored(reg, cur, conv, pg, a, keys) ==
  LET g == Gate(keys)
  IN IF g.kind # "answer" THEN NoAnswer(g, cur, conv, pg)
     ELSE IF ~g.value THEN Denied(cur, conv, pg)
     ELSE IF ~HasKey(reg, a.app_name)
     THEN Outcome("return", Returned(<<"Launched app: ", a.app_name>>, None, pg),
                  cur, conv, 1, "accept", <<>>)
     ELSE Outcome("return", Returned(<<"Launched app: ", a.app_name>>, None, pg),
                  Item(reg, a.app_name),
                  Append(conv, Msg("system", usage_prompt(Item(reg, a.app_name), pg), None)),
                  1, "accept", <<>>)

\* the branch action.type == "launch_app"
LaunchBranch(reg, cur, conv, pg, a, keys) ==
  LET g == Gate(keys)
  IN IF g.kind # "answer" THEN NoAnswer(g, cur, conv, pg)
     ELSE IF ~g.value THEN Denied(cur, conv, pg)
     ELSE IF ~HasKey(reg, a.app_name)
     THEN Outcome("raise", Raised("KeyError", <<"'", a.app_name, "'">>, pg),
                  cur, conv, 1, "accept", <<>>)
     ELSE LET app == Item(reg, a.app_name)
          IN Outcome("return", Returned(<<"Launched app: ", a.app_name>>, None, pg),
                     app, Append(conv, Msg("system", usage_prompt(app, pg), None)),
                     1, "accept", <<>>)

\* mutant: exit_app goes home without asking the user
ExitBranch_NoGate(reg, cur, conv, pg, a, keys) ==
  IF cur = None
  THEN Outcome("raise",
               Raised("AttributeError", <<"'NoneType' object has no attribute 'name'">>, pg),
               cur, conv, 0, "none", <<>>)
  ELSE Outcome("return", Returned(<<"Returned to home screen">>, None, pg),
               None, conv, 0, "none", <<>>)

\* the branch action.type == "exit_app"
ExitBranch(reg, cur, conv, pg, a, keys) ==
  IF cur = None
  THEN Outcome("raise",
               Raised("AttributeError", <<"'NoneType' object has no attribute 'name'">>, pg),
               cur, conv, 0, "none", <<>>)
  ELSE LET g == Gate(keys)
       IN IF g.kind # "answer" THEN NoAnswer(g, cur, conv, pg)
          ELSE IF ~g.value THEN Denied(cur, conv, pg)
          ELSE Outcome("return", Returned(<<"Returned to home screen">>, None, pg),
                       None, conv, 1, "accept", <<>>)

\* mutant: a handler that raises takes the OS back to the home screen
Handled_ExitsOnError(ret, cur, conv, a) ==
  Outcome(ret.kind, ret, IF ret.kind = "raise" THEN None ELSE cur, conv, 1, "accept",
          <<[app |-> cur, type |-> a.type]>>)

\* mutant: after the handler has returned the OS is at the home screen
Handled_GoesHome(ret, cur, conv, a) ==
  Outcome(ret.kind, ret, IF ret.kind = "return" THEN None ELSE cur, conv, 1, "accept",
          <<[app |-> cur, type |-> a.type]>>)

\* return self.current_app.handle_response(action), or its exception re-raised
Handled(ret, cur, conv, a) ==
  Outcome(ret.kind, ret, cur, conv, 1, "accept", <<[app |-> cur, type |-> a.type]>>)

\* mutant: without the check of current_app, an app action at the home screen
\* does nothing and returns no text
AppBranch_NoHomeCheck(reg, cur, conv, pg, a, keys, env) ==
  IF cur = None
  THEN Outcome("return", Returned(<<>>, None, pg), cur, conv, 0, "none", <<>>)
  ELSE LET g == Gate(keys)
       IN IF g.kind # "answer" THEN NoAnswer(g, cur, conv, pg)
          ELSE IF ~g.value THEN Denied(cur, conv, pg)
          ELSE Handled(handle_response(cur, a, env, pg), cur, conv, a)

\* the else branch: an app-specific action
AppBranch(reg, cur, conv, pg, a, keys, env) ==
  IF cur = None
  THEN Outcome("raise", Raised("ValueError", <<"No app is currently active">>, pg),
               cur, conv, 0, "none", <<>>)
  ELSE LET g == Gate(keys)
       IN IF g.kind # "answer" THEN NoAnswer(g, cur, conv, pg)
          ELSE IF ~g.value THEN Denied(cur, conv, pg)
          ELSE Handled(handle_response(cur, a, env, pg), cur, conv, a)

\* OS.handle_agent_action
handle_agent_action(reg, cur, conv, pg, a, keys, env) ==
  IF a.type = "launch_app" THEN LaunchBranch(reg, cur, conv, pg, a, keys)
  ELSE IF a.type = "exit_app" THEN ExitBranch(reg, cur, conv, pg, a, keys)
  ELSE AppBranch(reg, cur, conv, pg, a, keys, env)

(***************************************************************************)
(* OS.run: one iteration of its loop.  transport is what the Transport     *)
(* Adapter call does: "reply" (the model's reply a, which is decoded       *)
(* against the requested schema), "error" (the call raises), "refusal"     *)
(* (the reply carries no parsed object) or "interrupt".                    *)
(***************************************************************************)
OS_SYSTEM_PROMPT == <<"You are an autonomous AI agent ...">>

FirstPrompt == <<"What would you like to do? Please explain your reasoning.">>

Thoughts == <<"thought1">>

\* the message the except branch of the loop appends
ErrorMsg(error) == Msg("system", <<"Error occurred: ">> \o error, None)

\* the assistant message: json.dumps of the thoughts and the dumped action
AssistantMsg(a) == Msg("assistant", <<"thoughts">> \o Thoughts \o <<"action">> \o model_dump(a), None)

\* OS._format_conversation_message
format_conversation_message(text, image) ==
  IF image = None \/ image = "" THEN Msg("user", text, None) ELSE Msg("user", text, image)

\* "text, image = ..." on what handle_agent_action returned
Unpack(out) ==
  IF out.tuple THEN [ok |-> TRUE, text |-> out.text, image |-> out.image, error |-> <<>>]
  ELSE IF Len(out.text) = 2
  THEN [ok |-> TRUE, text |-> <<out.text[1]>>, image |-> out.text[2], error |-> <<>>]
  ELSE [ok |-> FALSE, text |-> <<>>, image |-> None,
        error |-> IF Len(out.text) > 2
                  THEN <<"too many values to unpack (expected 2)">>
                  ELSE <<"not enough values to unpack (expected 2, got ",
                         ToString(Len(out.text)), ")">>]

NoLast ==
  [op |-> "init", transport |-> "none", action |-> BlankAction, kind |-> "none",
   exc |-> None, text |-> <<>>, asked |-> 0, answer |-> "none", handled |-> <<>>,
   before |-> None, len |-> 0, unpack |-> "none", ran |-> 0]

\* the state after the iteration, with the record of what it did
Iteration(nextpc, cur, conv, pg, lst) ==
  [pc |-> nextpc, current_app |-> cur, conversation |-> conv, page |-> pg, last |-> lst]

\* the record of an iteration that started with current app cur and conversation conv
TurnRecord(transport, cur, conv) ==
  [NoLast EXCEPT !.op = "turn", !.transport = transport, !.before = cur, !.len = Len(conv)]

\* mutant: an exception in the loop ends the loop and leaves no message
Failed_Stops(base, exc, error, cur, conv, pg) ==
  Iteration("crashed", cur, conv, pg, [base EXCEPT !.kind = "raise", !.exc = exc])

\* mutant: the except branch drops the last message before it reports the error
Failed_Rollback(base, exc, error, cur, conv, pg) ==
  Iteration("loop", cur, Append(SubSeq(conv, 1, Len(conv) - 1), ErrorMsg(error)), pg,
            [base EXCEPT !.kind = "raise", !.exc = exc])

\* the except branch of the loop: the error goes into the conversation
Failed(base, exc, error, cur, conv, pg) ==
  Iteration("loop", cur, Append(conv, ErrorMsg(error)), pg,
            [base EXCEPT !.kind = "raise", !.exc = exc])

\* the record of an iteration that dispatched action a with outcome out
Did(base, a, out) ==
  [base EXCEPT !.action = a, !.kind = out.kind, !.exc = out.exc, !.text = out.text,
               !.asked = out.asked, !.answer = out.answer, !.handled = out.handled]

\* "text, image = self.handle_agent_action(response)" and the lines after it
AfterReturn(did, out, u) ==
  IF ~u.ok
  THEN Iteration("loop", out.current_app, Append(out.conversation, ErrorMsg(u.error)),
                 out.page, [did EXCEPT !.kind = "raise", !.exc = "ValueError", !.unpack = "failed"])
  ELSE Iteration("loop", out.current_app,
                 IF u.text # <<>>
                 THEN Append(out.conversation, format_conversation_message(u.text, u.image))
                 ELSE out.conversation,
                 out.page, [did EXCEPT !.text = u.text, !.unpack = "done"])

\* mutant: an exception of handle_agent_action leaves OS.run
AfterDispatch_Unhandled(did, out) ==
  IF out.kind = "blocked"
  THEN Iteration("blocked", out.current_app, out.conversation, out.page, did)
  ELSE IF out.kind = "interrupt"
  THEN Iteration("stopped", out.current_app, out.conversation, out.page, did)
  ELSE IF out.kind = "raise"
  THEN Iteration("crashed", out.current_app, out.conversation, out.page, did)
  ELSE AfterReturn(did, out, Unpack(out))

\* the iteration from the call of handle_agent_action on, with its outcome out
AfterDispatch(did, out) ==
  IF out.kind = "blocked"
  THEN Iteration("blocked", out.current_app, out.conversation, out.page, did)
  ELSE IF out.kind = "interrupt"
  THEN Iteration("stopped", out.current_app, out.conversation, out.page, did)
  ELSE IF out.kind = "raise"
  THEN Iteration("loop", out.current_app, Append(out.conversation, ErrorMsg(out.error)),
                 out.page, did)
  ELSE AfterReturn(did, out, Unpack(out))

\* the iteration, given the schema composed at its start
WithSchema(schema, base, reg, cur, conv, pg, transport, a, keys, env) ==
  IF schema.raised THEN Failed(base, "ValueError", <<"No apps registered">>, cur, conv, pg)
  ELSE IF transport = "interrupt"
  THEN Iteration("stopped", cur, conv, pg, [base EXCEPT !.kind = "interrupt"])
  ELSE IF transport = "error"
  THEN Failed(base, "APIError", <<"Connection error.">>, cur, conv, pg)
  ELSE IF transport = "refusal"
  THEN Failed(base, "AttributeError", <<"'NoneType' object has no attribute 'thoughts'">>,
              cur, conv, pg)
  ELSE IF ~Conforms(schema, a)
  THEN Failed([base EXCEPT !.transport = "violation", !.action.type = a.type], "ValidationError",
              <<"validation error for ", schema.name>>, cur, conv, pg)
  ELSE AfterDispatch(Did(base, a, handle_agent_action(reg, cur, Append(conv, AssistantMsg(a)),
                                                      pg, a, keys, env)),
                     handle_agent_action(reg, cur, Append(conv, AssistantMsg(a)),
                                         pg, a, keys, env))

\* mutant: the loop keeps using the schema of the home screen
run_iteration_StaleSchema(reg, cur, conv, pg, transport, a, keys, env) ==
  WithSchema(current_response_format(reg, None), TurnRecord(transport, cur, conv),
             reg, cur, conv, pg, transport, a, keys, env)

\* the body of "while True" in OS.run
run_iteration(reg, cur, conv, pg, transport, a, keys, env) ==
  WithSchema(current_response_format(reg, cur), TurnRecord(transport, cur, conv),
             reg, cur, conv, pg, transport, a, keys, env)

(***************************************************************************)
(* The inputs the environment chooses.                                     *)
(***************************************************************************)
HelloWorld == <<"H", "e", "l", "l", "o", " ", "W", "o", "r", "l", "d">>

Messages == {HelloWorld}

CommandLists == {<<>>, <<"ls">>, <<"ls", "id">>}

\* the replies of the model: every action over small field values, and
\* launch_app with a name ("nope") that no app has
Replies ==
  {LaunchAppAction(n) : n \in {"echo", "ssh", "browser", "nope"}}
  \cup {ExitAppAction}
  \cup {EchoAction(m, e) : m \in Messages, e \in TextEffect}
  \cup {SSHAction(cs) : cs \in CommandLists}
  \cup {NavigateAction(u) : u \in {"u1", "u2", "nowhere"}}
  \cup {ClickAction(k) : k \in 0..2}

\* what the user does at one confirmation prompt
KeySeqs ==
  { << <<"y">> >>, << <<"n">> >>, << <<>> >>, << CtrlC >>,
    << <<"x">>, <<"N", "O">> >>, << <<" ", "Y", "e", "s", " ">> >>, << <<"x">> >> }

SshOuts ==
  { [exc |-> FALSE, status |-> 0, stdout |-> <<"o", "k", "\n">>, stderr |-> <<>>],
    [exc |-> FALSE, status |-> 1, stdout |-> <<>>, stderr |-> <<"n", "o">>],
    [exc |-> TRUE, status |-> 0, stdout |-> <<>>, stderr |-> <<>>] }

\* what the world outside does during the handling of action a
EnvsFor(a) ==
  IF a.type = "ssh"
  THEN {[ssh |-> outs, loads |-> TRUE] : outs \in [1..Len(a.commands) -> SshOuts]}
  ELSE IF a.type \in {"navigate", "click"}
  THEN {[ssh |-> <<>>, loads |-> l] : l \in BOOLEAN}
  ELSE {[ssh |-> <<>>, loads |-> TRUE]}

(***************************************************************************)
(* The state machine.                                                      *)
(***************************************************************************)
\* OS.__init__, with and without a user prompt, and the registry reg
Constructed(reg) ==
  /\ pc = "setup"
  /\ apps = reg
  /\ current_app = None
  /\ \E user_prompt \in {<<>>, <<"Be helpful.">>} :
       conversation =
         (IF user_prompt # <<>> THEN <<Msg("system", user_prompt, None)>> ELSE <<>>)
         \o <<Msg("system", OS_SYSTEM_PROMPT, None)>>
  /\ page = "about:blank"
  /\ calls = 0
  /\ direct = 0
  /\ last = NoLast
  /\ turns = <<>>
  /\ gate = NoGate
  /\ ssh_frame = NoSSHCall
  /\ exec_frame = NoExecCall
  /\ echo_frame = NoEchoCall
  /\ legacy = NoLegacy
  /\ browser_frame = NoBrowserCall

Init == Constructed(<<>>)

\* os.register_app(app)
RegisterApp ==
  /\ pc = "setup"
  /\ \E app \in AppObjs :
       /\ apps' = register_app(apps, app)
  /\ last' = [NoLast EXCEPT !.op = "register", !.before = current_app, !.len = Len(conversation)]
  /\ UNCHANGED <<pc, current_app, conversation, page, calls, direct, turns, gate, ssh_frame, exec_frame, echo_frame, legacy, browser_frame>>

\* mutant: os.run() without the check of the registry
Run_NoRegistryCheck ==
  /\ pc = "setup"
  /\ pc' = "loop"
  /\ conversation' = Append(conversation, Msg("user", FirstPrompt, None))
  /\ last' = [NoLast EXCEPT !.op = "run", !.kind = "return",
                            !.before = current_app, !.len = Len(conversation)]
  /\ UNCHANGED <<apps, current_app, page, calls, direct, turns, gate, ssh_frame, exec_frame, echo_frame, legacy, browser_frame>>

\* os.run() up to its loop: the check of the registry and the first prompt
Run ==
  /\ pc = "setup"
  /\ IF apps = <<>>
     THEN /\ pc' = "crashed"
          /\ last' = [NoLast EXCEPT !.op = "run", !.kind = "raise", !.exc = "ValueError",
                                    !.before = current_app, !.len = Len(conversation)]
          /\ UNCHANGED conversation
     ELSE /\ pc' = "loop"
          /\ conversation' = Append(conversation, Msg("user", FirstPrompt, None))
          /\ last' = [NoLast EXCEPT !.op = "run", !.kind = "return",
                                    !.before = current_app, !.len = Len(conversation)]
  /\ UNCHANGED <<apps, current_app, page, calls, direct, turns, gate, ssh_frame, exec_frame, echo_frame, legacy, browser_frame>>

\* one iteration of the loop of OS.run, the limit-th at most
Step(limit, transport, a, keys, env) ==
  /\ pc = "loop"
  /\ calls < limit
  /\ \E it \in {run_iteration(apps, current_app, conversation, page, transport, a, keys, env)} :
       /\ it.pc # "blocked"
       /\ pc' = it.pc
       /\ current_app' = it.current_app
       /\ conversation' = it.conversation
       /\ page' = it.page
       /\ last' = it.last
       /\ turns' = IF it.last.transport = "reply"
                   THEN Append(turns, [action |-> it.last.action, answer |-> it.last.answer,
                                       kind |-> it.last.kind, text |-> it.last.text,
                                       after |-> it.current_app])
                   ELSE turns
  /\ calls' = IF current_response_format(apps, current_app).raised THEN calls ELSE calls + 1
  /\ UNCHANGED <<apps, direct, gate, ssh_frame, exec_frame, echo_frame, legacy, browser_frame>>

NoEnv == [ssh |-> <<>>, loads |-> TRUE]

\* the Transport Adapter returns the model's reply
TurnReply(limit) ==
  \E a \in Replies : \E keys \in KeySeqs : \E env \in EnvsFor(a) :
    Step(limit, "reply", a, keys, env)

\* mutant: the exception of the Transport Adapter call leaves OS.run
TurnTransportError_Unhandled(limit) ==
  /\ pc = "loop"
  /\ calls < limit
  /\ pc' = "crashed"
  /\ calls' = calls + 1
  /\ last' = [TurnRecord("error", current_app, conversation) EXCEPT !.kind = "raise",
                                                                   !.exc = "APIError"]
  /\ UNCHANGED <<apps, current_app, conversation, page, direct, turns, gate, ssh_frame, exec_frame, echo_frame, legacy, browser_frame>>

\* the Transport Adapter call raises
TurnTransportError(limit) == Step(limit, "error", BlankAction, <<>>, NoEnv)

\* the reply has no parsed object
TurnRefusal(limit) == Step(limit, "refusal", BlankAction, <<>>, NoEnv)

\* the user interrupts during the Transport Adapter call
TurnInterrupt(limit) == Step(limit, "interrupt", BlankAction, <<>>, NoEnv)

\* the user interrupts while the handler of a confirmed app action runs:
\* KeyboardInterrupt passes every "except Exception" on its way (ssh.py:138,
\* browser.py:116, os.py:206) and ends the loop at os.py:272.  Of an ssh
\* action's commands, ran have run to their end by then; a navigation has
\* reached its page or not.
TurnHandlerInterrupt(limit) ==
  /\ pc = "loop"
  /\ calls < limit
  /\ current_app # None
  /\ \E a \in Replies : \E keys \in KeySeqs :
       /\ Conforms(current_response_format(apps, current_app), a)
       /\ a.type \in Range(get_action_models(current_app))
       /\ Gate(keys).kind = "answer"
       /\ Gate(keys).value
       /\ \E ran \in 0..(IF a.type = "ssh" THEN Len(a.commands) - 1 ELSE 0) :
            /\ last' = [TurnRecord("reply", current_app, conversation) EXCEPT
                          !.action = a, !.kind = "interrupt", !.asked = 1,
                          !.answer = "accept",
                          !.handled = <<[app |-> current_app, type |-> a.type]>>,
                          !.ran = ran]
            /\ turns' = Append(turns, [action |-> a, answer |-> "accept", kind |-> "interrupt",
                                        text |-> <<>>, after |-> current_app])
       /\ page' \in (IF a.type = "navigate" /\ a.url \in Urls THEN {page, a.url} ELSE {page})
       /\ conversation' = Append(conversation, AssistantMsg(a))
  /\ pc' = "stopped"
  /\ calls' = calls + 1
  /\ UNCHANGED <<apps, current_app, direct, gate, ssh_frame, exec_frame, echo_frame, legacy, browser_frame>>

\* os.handle_agent_action(response), called by a caller other than OS.run
Dispatch ==
  /\ pc = "setup"
  /\ direct < MaxDirect
  /\ \E a \in Replies : \E keys \in KeySeqs : \E env \in EnvsFor(a) :
       \E out \in {handle_agent_action(apps, current_app, conversation, page, a, keys, env)} :
          /\ out.kind # "blocked"
          /\ current_app' = out.current_app
          /\ conversation' = out.conversation
          /\ page' = out.page
          /\ last' = [NoLast EXCEPT !.op = "dispatch", !.action = a, !.kind = out.kind,
                                    !.exc = out.exc, !.text = out.text, !.asked = out.asked,
                                    !.answer = out.answer, !.handled = out.handled,
                                    !.before = current_app, !.len = Len(conversation)]
  /\ direct' = direct + 1
  /\ UNCHANGED <<pc, apps, calls, turns, gate, ssh_frame, exec_frame, echo_frame, legacy, browser_frame>>

\* the process of run.py: registration, then OS.run
Next ==
  \/ RegisterApp
  \/ Run
  \/ TurnReply(MaxTurns)
  \/ TurnTransportError(MaxTurns)
  \/ TurnRefusal(MaxTurns)
  \/ TurnInterrupt(MaxTurns)
  \/ TurnHandlerInterrupt(MaxTurns)

Spec == Init /\ [][Next]_vars

\* the same process with the registry {echo}: os.register_app(EchoApp()) and no other
InitEcho == Constructed(register_app(<<>>, "e1"))

NextEcho ==
  \/ Run
  \/ TurnReply(MaxScenarioTurns)
  \/ TurnTransportError(MaxScenarioTurns)
  \/ TurnRefusal(MaxScenarioTurns)
  \/ TurnInterrupt(MaxScenarioTurns)

SpecEcho == InitEcho /\ [][NextEcho]_vars

\* the OS object driven through its methods by a caller other than OS.run
NextDispatch ==
  \/ RegisterApp
  \/ Dispatch

SpecDispatch == Init /\ [][NextDispatch]_vars

(***************************************************************************)
(* get_user_confirmation on its own: a caller passes a default, the user   *)
(* types up to MaxLines lines (or presses Ctrl-C) at its prompts.          *)
(***************************************************************************)
YesLines == {<<"y">>, <<"Y", "E", "S">>, <<" ", "Y", "e", "s", " ">>, <<"\t", "Y", "\n">>}

NoLines == {<<"n">>, <<"N", "O">>, <<" ", "n", "O", " ">>, <<"N", " ">>}

BlankLines == {<<>>, <<" ">>, <<" ", "\t">>}

OtherLines == {<<"x">>, <<"y", "e">>, <<"n", "o", "n">>, <<"y", " ", "e", "s">>}

Lines == YesLines \cup NoLines \cup BlankLines \cup OtherLines \cup {CtrlC}

Defaults == {<<"y">>, <<"Y">>, <<"n">>, <<"N">>}

TypedUpTo(n) == UNION {[1..k -> Lines] : k \in 0..n}

\* the call get_user_confirmation(prompt, default) has been set up
InitGate ==
  /\ pc = "gate"
  /\ apps = <<>>
  /\ current_app = None
  /\ conversation = <<>>
  /\ page = "about:blank"
  /\ calls = 0
  /\ direct = 0
  /\ last = NoLast
  /\ turns = <<>>
  /\ \E keys \in TypedUpTo(MaxLines) : \E default \in Defaults :
       gate = [NoGate EXCEPT !.keys = keys, !.default = default]
  /\ ssh_frame = NoSSHCall
  /\ exec_frame = NoExecCall
  /\ echo_frame = NoEchoCall
  /\ legacy = NoLegacy
  /\ browser_frame = NoBrowserCall

\* the call runs until it returns, is interrupted, or waits for a line that
\* does not come
AskGate ==
  /\ pc = "gate"
  /\ ~gate.asked
  /\ gate' = [gate EXCEPT !.asked = TRUE,
                           !.result = get_user_confirmation(gate.keys, gate.default)]
  /\ UNCHANGED <<pc, apps, current_app, conversation, page, calls, direct, last, turns,
                 ssh_frame, exec_frame, echo_frame, legacy, browser_frame>>

NextGate == AskGate

SpecGate == InitGate /\ [][NextGate]_vars

(***************************************************************************)
(* SSHApp.handle_response on its own, one command at a time: the action's  *)
(* commands, what the remote end does with each (outs), the results list   *)
(* and the calls of _execute_ssh_command made so far (executed).           *)
(***************************************************************************)
MaxCommands == 3

SSHCommands == {"ls", "id"}

SSHCommandLists == UNION {[1..k -> SSHCommands] : k \in 0..MaxCommands}

\* no OS object: the variables of the agent loop stay as they are
NoOS ==
  /\ apps = <<>>
  /\ current_app = None
  /\ conversation = <<>>
  /\ page = "about:blank"
  /\ calls = 0
  /\ direct = 0
  /\ last = NoLast
  /\ turns = <<>>

\* handle_response(response) has been called with response.commands = cs
InitSSH ==
  /\ pc = "ssh"
  /\ NoOS
  /\ gate = NoGate
  /\ \E cs \in SSHCommandLists : \E outs \in [1..Len(cs) -> SshOuts] :
       ssh_frame = [NoSSHCall EXCEPT !.commands = cs, !.outs = outs]
  /\ exec_frame = NoExecCall
  /\ echo_frame = NoEchoCall
  /\ legacy = NoLegacy
  /\ browser_frame = NoBrowserCall

\* mutant: the loop over the commands ends at the first command that fails
SSHExecuteNext_StopOnFailure ==
  /\ pc = "ssh"
  /\ ~ssh_frame.returned
  /\ Len(ssh_frame.executed) < Len(ssh_frame.commands)
  /\ \A k \in 1..Len(ssh_frame.results) : ssh_frame.results[k].exit_code = 0
  /\ \E i \in {Len(ssh_frame.executed) + 1} :
       ssh_frame' = [ssh_frame EXCEPT
         !.executed = Append(@, ssh_frame.commands[i]),
         !.results = Append(@, execute_ssh_command(ssh_frame.commands[i], ssh_frame.outs[i]))]
  /\ UNCHANGED <<pc, apps, current_app, conversation, page, calls, direct, last, turns, gate,
                 exec_frame, echo_frame, legacy, browser_frame>>

\* one round of "for command in response.commands": the next command is
\* executed and its result appended
SSHExecuteNext ==
  /\ pc = "ssh"
  /\ ~ssh_frame.returned
  /\ Len(ssh_frame.executed) < Len(ssh_frame.commands)
  /\ \E i \in {Len(ssh_frame.executed) + 1} :
       ssh_frame' = [ssh_frame EXCEPT
         !.executed = Append(@, ssh_frame.commands[i]),
         !.results = Append(@, execute_ssh_command(ssh_frame.commands[i], ssh_frame.outs[i]))]
  /\ UNCHANGED <<pc, apps, current_app, conversation, page, calls, direct, last, turns, gate,
                 exec_frame, echo_frame, legacy, browser_frame>>

\* the loop is over (here: no command is left, or the mutant's loop gave
\* up): the results are formatted over zip(response.commands, results) and
\* returned
SSHFormat ==
  /\ pc = "ssh"
  /\ ~ssh_frame.returned
  /\ ~ENABLED SSHExecuteNext
  /\ \E n \in {Len(ssh_frame.results)} :
       ssh_frame' = [ssh_frame EXCEPT
         !.returned = TRUE,
         !.text = JoinLines(Blocks(1, SubSeq(ssh_frame.commands, 1, n), ssh_frame.results)),
         !.image = None]
  /\ UNCHANGED <<pc, apps, current_app, conversation, page, calls, direct, last, turns, gate,
                 exec_frame, echo_frame, legacy, browser_frame>>

NextSSH ==
  \/ SSHExecuteNext
  \/ SSHFormat

SpecSSH == InitSSH /\ [][NextSSH]_vars

(***************************************************************************)
(* SSHApp._execute_ssh_command on its own, statement by statement, with    *)
(* the channel.  The remote end (remote) accepts the connection or not,    *)
(* writes its output in pieces and then reports an exit status, or never   *)
(* does; the transport delivers in order, so what was written before the   *)
(* exit status is buffered when exit_status_ready() turns true.  Data are  *)
(* bytes: "a" and "e" are ASCII bytes, "C3" "9F" the two bytes of U+00DF.  *)
(* recv takes up to RecvSize bytes (1024 in the source) from the buffer.   *)
(***************************************************************************)
RecvSize == 2

MaxWrites == 2

RECURSIVE Utf8Decode(_)
\* bytes.decode('utf-8'): the text, or a UnicodeDecodeError
Utf8Decode(bytes) ==
  IF bytes = <<>> THEN [ok |-> TRUE, text |-> <<>>]
  ELSE IF bytes[1] = "9F" THEN [ok |-> FALSE, text |-> <<>>]
  ELSE IF bytes[1] = "C3"
  THEN IF Len(bytes) >= 2 /\ bytes[2] = "9F"
       THEN LET rest == Utf8Decode(SubSeq(bytes, 3, Len(bytes)))
            IN [ok |-> rest.ok, text |-> IF rest.ok THEN <<SharpS>> \o rest.text ELSE <<>>]
       ELSE [ok |-> FALSE, text |-> <<>>]
  ELSE LET rest == Utf8Decode(Tail(bytes))
       IN [ok |-> rest.ok, text |-> IF rest.ok THEN <<bytes[1]>> \o rest.text ELSE <<>>]

\* channel.recv(nbytes) / channel.recv_stderr(nbytes): the bytes handed out
RecvBytes(buffer, nbytes) ==
  SubSeq(buffer, 1, IF Len(buffer) < nbytes THEN Len(buffer) ELSE nbytes)

\* the buffer after that
RecvRest(buffer, nbytes) ==
  SubSeq(buffer, (IF Len(buffer) < nbytes THEN Len(buffer) ELSE nbytes) + 1, Len(buffer))

\* what the remote command writes at once
RemoteWrites ==
  { [to |-> "out", data |-> <<"a">>],
    [to |-> "out", data |-> <<"a", "C3", "9F">>],
    [to |-> "out", data |-> <<"C3", "9F">>],
    [to |-> "err", data |-> <<"e">>] }

RemoteRuns ==
  {[connects |-> FALSE, writes |-> <<>>, exits |-> FALSE, status |-> 0]}
  \cup {[connects |-> TRUE, writes |-> w, exits |-> x, status |-> st] :
          w \in UNION {[1..k -> RemoteWrites] : k \in 0..MaxWrites},
          x \in BOOLEAN, st \in {0, 1}}

\* _execute_ssh_command(command) has been called
InitExec ==
  /\ pc = "exec"
  /\ NoOS
  /\ gate = NoGate
  /\ ssh_frame = NoSSHCall
  /\ \E r \in RemoteRuns :
       /\ r.exits \/ r.status = 0
       /\ exec_frame = [NoExecCall EXCEPT !.at = "connect", !.remote = r]
  /\ echo_frame = NoEchoCall
  /\ legacy = NoLegacy
  /\ browser_frame = NoBrowserCall

ExecUnchanged ==
  UNCHANGED <<pc, apps, current_app, conversation, page, calls, direct, last, turns, gate,
              ssh_frame, echo_frame, legacy, browser_frame>>

\* mutant: the except branch returns by itself, past the finally clause
ExecExcept_SkipsFinally(frame, error) ==
  [frame EXCEPT !.at = "return", !.exit_status = <<-1>>, !.stderr_str = error,
                !.raised = TRUE,
                !.left = IF frame.at \in {"poll_out", "poll_err", "poll_exit"}
                         THEN "exception" ELSE @]

\* the except branch: exit_status = -1, stderr_str = str(e); the finally
\* clause comes next
ExecExcept(frame, error) ==
  [frame EXCEPT !.at = "finally", !.exit_status = <<-1>>, !.stderr_str = error,
                !.raised = TRUE,
                !.left = IF frame.at \in {"poll_out", "poll_err", "poll_exit"}
                         THEN "exception" ELSE @]

\* the remote command writes its next piece and the transport buffers it
ChannelData ==
  /\ pc = "exec"
  /\ exec_frame.connected
  /\ exec_frame.remote.writes # <<>>
  /\ \E w \in {Head(exec_frame.remote.writes)} :
       exec_frame' = [exec_frame EXCEPT
         !.remote.writes = Tail(@),
         !.recv = IF w.to = "out" THEN @ \o w.data ELSE @,
         !.recv_stderr = IF w.to = "err" THEN @ \o w.data ELSE @,
         !.sent_out = IF w.to = "out" THEN @ \o w.data ELSE @,
         !.sent_err = IF w.to = "err" THEN @ \o w.data ELSE @]
  /\ ExecUnchanged

\* the remote command ends and its exit status arrives
ChannelExitStatus ==
  /\ pc = "exec"
  /\ exec_frame.connected
  /\ exec_frame.remote.writes = <<>>
  /\ exec_frame.remote.exits
  /\ ~exec_frame.status_ready
  /\ exec_frame' = [exec_frame EXCEPT !.status_ready = TRUE]
  /\ ExecUnchanged

\* client.connect ... channel.exec_command(command)
ExecConnect ==
  /\ pc = "exec"
  /\ exec_frame.at = "connect"
  /\ exec_frame' = IF exec_frame.remote.connects
                   THEN [exec_frame EXCEPT !.at = "poll_out", !.connected = TRUE]
                   ELSE ExecExcept(exec_frame, <<"d", "o", "w", "n">>)
  /\ ExecUnchanged

\* if channel.recv_ready(): stdout_str += channel.recv(1024).decode('utf-8'),
\* in the polling loop (next) and after it (the while loop stays)
ExecReadStdout(at, next) ==
  /\ pc = "exec"
  /\ exec_frame.at = at
  /\ exec_frame' =
       IF exec_frame.recv = <<>>
       THEN [exec_frame EXCEPT !.at = next]
       ELSE LET output == Utf8Decode(RecvBytes(exec_frame.recv, RecvSize))
            IN IF output.ok
               THEN [exec_frame EXCEPT !.recv = RecvRest(@, RecvSize),
                                       !.stdout_str = @ \o output.text,
                                       !.at = IF at = "poll_out" THEN next ELSE at]
               ELSE ExecExcept([exec_frame EXCEPT !.recv = RecvRest(@, RecvSize)],
                               <<"'utf-8' codec can't decode byte">>)
  /\ ExecUnchanged

\* if channel.recv_stderr_ready(): stderr_str += channel.recv_stderr(1024).decode('utf-8')
ExecReadStderr(at, next) ==
  /\ pc = "exec"
  /\ exec_frame.at = at
  /\ exec_frame' =
       IF exec_frame.recv_stderr = <<>>
       THEN [exec_frame EXCEPT !.at = next]
       ELSE LET error_output == Utf8Decode(RecvBytes(exec_frame.recv_stderr, RecvSize))
            IN IF error_output.ok
               THEN [exec_frame EXCEPT !.recv_stderr = RecvRest(@, RecvSize),
                                       !.stderr_str = @ \o error_output.text,
                                       !.at = IF at = "poll_err" THEN next ELSE at]
               ELSE ExecExcept([exec_frame EXCEPT !.recv_stderr = RecvRest(@, RecvSize)],
                               <<"'utf-8' codec can't decode byte">>)
  /\ ExecUnchanged

\* if channel.exit_status_ready(): exit_status = channel.recv_exit_status(); break
ExecPollExit ==
  /\ pc = "exec"
  /\ exec_frame.at = "poll_exit"
  /\ exec_frame' =
       IF exec_frame.status_ready
       THEN [exec_frame EXCEPT !.at = "drain_out", !.left = "status",
                               !.exit_status = <<exec_frame.remote.status>>]
       ELSE [exec_frame EXCEPT !.at = "poll_out"]
  /\ ExecUnchanged

\* finally: client.close()
ExecFinally ==
  /\ pc = "exec"
  /\ exec_frame.at = "finally"
  /\ exec_frame' = [exec_frame EXCEPT !.at = "return", !.connected = FALSE, !.closed = @ + 1]
  /\ ExecUnchanged

\* return CommandResult(exit_code=exit_status or -1, ...)
ExecReturn ==
  /\ pc = "exec"
  /\ exec_frame.at = "return"
  /\ exec_frame' = [exec_frame EXCEPT
       !.at = "returned",
       !.result = [exit_code |-> IF exec_frame.exit_status = <<>> THEN -1
                                 ELSE PyOr(exec_frame.exit_status[1], -1),
                   stdout |-> exec_frame.stdout_str,
                   stderr |-> exec_frame.stderr_str]]
  /\ ExecUnchanged

NextExec ==
  \/ ChannelData
  \/ ChannelExitStatus
  \/ ExecConnect
  \/ ExecReadStdout("poll_out", "poll_err")
  \/ ExecReadStderr("poll_err", "poll_exit")
  \/ ExecPollExit
  \/ ExecReadStdout("drain_out", "drain_err")
  \/ ExecReadStderr("drain_err", "finally")
  \/ ExecFinally
  \/ ExecReturn

\* the statements of the call, which run whenever they can
ExecSteps ==
  \/ ExecConnect
  \/ ExecReadStdout("poll_out", "poll_err")
  \/ ExecReadStderr("poll_err", "poll_exit")
  \/ ExecPollExit
  \/ ExecReadStdout("drain_out", "drain_err")
  \/ ExecReadStderr("drain_err", "finally")
  \/ ExecFinally
  \/ ExecReturn

SpecExec == InitExec /\ [][NextExec]_vars

\* the thread of the call keeps running, and a remote command that ends gets
\* its output and its exit status through
SpecExecFair ==
  /\ SpecExec
  /\ WF_vars(ExecSteps)
  /\ WF_vars(ChannelData)
  /\ WF_vars(ChannelExitStatus)

(***************************************************************************)
(* EchoApp.handle_response on its own: every message of up to MaxMessage   *)
(* characters over a small alphabet and every effect; a second call        *)
(* applies the same effect to the result of the first.                     *)
(***************************************************************************)
MaxMessage == 3

EchoAlphabet == {"a", "B", " ", SharpS, DottedI}

EchoMessages == UNION {[1..k -> EchoAlphabet] : k \in 0..MaxMessage}

\* the result part of the text "Echo (<effect>): <result>"
EchoResult(text) == SubSeq(text, 4, Len(text))

InitEchoCall ==
  /\ pc = "echo"
  /\ NoOS
  /\ gate = NoGate
  /\ ssh_frame = NoSSHCall
  /\ exec_frame = NoExecCall
  /\ \E m \in EchoMessages : \E e \in TextEffect :
       echo_frame = [NoEchoCall EXCEPT !.message = m, !.effect = e]
  /\ legacy = NoLegacy
  /\ browser_frame = NoBrowserCall

\* handle_response(EchoAction(message, effect))
EchoCall ==
  /\ pc = "echo"
  /\ ~echo_frame.called
  /\ \E ret \in {EchoHandleResponse(EchoAction(echo_frame.message, echo_frame.effect), page)} :
       echo_frame' = [echo_frame EXCEPT
         !.called = TRUE,
         !.ret = [kind |-> ret.kind, text |-> ret.text, image |-> ret.image]]
  /\ UNCHANGED <<pc, apps, current_app, conversation, page, calls, direct, last, turns, gate,
                 ssh_frame, exec_frame, legacy, browser_frame>>

\* handle_response(EchoAction(result, effect)) on the result of the first call
EchoCallAgain ==
  /\ pc = "echo"
  /\ echo_frame.called
  /\ ~echo_frame.repeated
  /\ \E ret \in {EchoHandleResponse(EchoAction(EchoResult(echo_frame.ret.text),
                                               echo_frame.effect), page)} :
       echo_frame' = [echo_frame EXCEPT
         !.repeated = TRUE,
         !.again = [kind |-> ret.kind, text |-> ret.text, image |-> ret.image]]
  /\ UNCHANGED <<pc, apps, current_app, conversation, page, calls, direct, last, turns, gate,
                 ssh_frame, exec_frame, legacy, browser_frame>>

NextEchoCall ==
  \/ EchoCall
  \/ EchoCallAgain

SpecEchoCall == InitEchoCall /\ [][NextEchoCall]_vars

(***************************************************************************)
(* BrowserApp's page methods on their own: navigate_to_url and             *)
(* click_element called one after the other on one page, with any URL, any *)
(* element number, and a page that settles or does not.                    *)
(***************************************************************************)
MaxBrowserCalls == 4

\* the element numbers tried: below the range, in it and above it
ClickNumbers == (0 - 1)..3

InitBrowser ==
  /\ pc = "browser"
  /\ NoOS
  /\ gate = NoGate
  /\ ssh_frame = NoSSHCall
  /\ exec_frame = NoExecCall
  /\ echo_frame = NoEchoCall
  /\ legacy = NoLegacy
  /\ browser_frame = NoBrowserCall

BrowserUnchanged ==
  UNCHANGED <<pc, apps, current_app, conversation, calls, direct, last, turns, gate,
              ssh_frame, exec_frame, echo_frame, legacy>>

\* navigate_to_url(url)
BrowserNavigate(url, loads) ==
  /\ pc = "browser"
  /\ browser_frame.calls < MaxBrowserCalls
  /\ \E ret \in {navigate_to_url(url, loads, page)} :
       /\ page' = ret.page
       /\ browser_frame' =
            [calls |-> browser_frame.calls + 1, op |-> "navigate", element |-> 0, url |-> url,
             before |-> page, kind |-> ret.kind, exc |-> ret.exc, text |-> ret.text,
             goto |-> url, clicked |-> 0]
  /\ BrowserUnchanged

\* click_element(element_number)
BrowserClick(element_number, loads) ==
  /\ pc = "browser"
  /\ browser_frame.calls < MaxBrowserCalls
  /\ \E c \in {ClickElement(element_number, loads, page)} :
       /\ page' = c.ret.page
       /\ browser_frame' =
            [calls |-> browser_frame.calls + 1, op |-> "click", element |-> element_number,
             url |-> "", before |-> page, kind |-> c.ret.kind, exc |-> c.ret.exc,
             text |-> c.ret.text, goto |-> c.goto, clicked |-> c.clicked]
  /\ BrowserUnchanged

NextBrowser ==
  \/ \E url \in Urls : \E loads \in BOOLEAN : BrowserNavigate(url, loads)
  \/ \E n \in ClickNumbers : \E loads \in BOOLEAN : BrowserClick(n, loads)

SpecBrowser == InitBrowser /\ [][NextBrowser]_vars

(***************************************************************************)
(* The legacy runtime, src/runtime/runtime.py.  First execute_commands on  *)
(* its own, one command at a time: the user's keys at the prompt and what  *)
(* the remote end does with a command are chosen when the command's turn   *)
(* comes.                                                                  *)
(***************************************************************************)
\* execute_ssh_command of the legacy runtime: the exit status as it is
runtime_execute_ssh_command(command, out) ==
  [exit_code |-> IF out.exc THEN -1 ELSE out.status,
   stdout |-> out.stdout,
   stderr |-> IF out.exc THEN <<"d", "o", "w", "n">> ELSE out.stderr]

\* CommandResponse(exit_code=-1, stdout="", stderr="Command skipped by user")
CommandSkipped ==
  [exit_code |-> -1, stdout |-> <<>>, stderr |-> <<"Command skipped by user">>]

\* execute_commands(commands, ssh_config) has been called
InitLegacyCommands ==
  /\ pc = "legacy"
  /\ NoOS
  /\ gate = NoGate
  /\ ssh_frame = NoSSHCall
  /\ exec_frame = NoExecCall
  /\ echo_frame = NoEchoCall
  /\ \E cs \in SSHCommandLists :
       legacy = [NoLegacy EXCEPT !.at = "commands", !.commands = cs]
  /\ browser_frame = NoBrowserCall

LegacyUnchanged ==
  UNCHANGED <<pc, apps, current_app, conversation, page, calls, direct, last, turns, gate,
              ssh_frame, exec_frame, echo_frame, browser_frame>>

\* mutant: a declined command ends the loop over the commands
LegacyCommand_DeclineBreaks(keys, out) ==
  /\ pc = "legacy"
  /\ legacy.at = "commands"
  /\ Len(legacy.command_results) < Len(legacy.commands)
  /\ \E command \in {legacy.commands[Len(legacy.command_results) + 1]} :
     \E gated \in {get_user_confirmation(keys, <<"y">>)} :
       legacy' =
         IF gated.kind # "answer"
         THEN [legacy EXCEPT
                 !.at = IF gated.kind = "interrupt" THEN "interrupted" ELSE "blocked",
                 !.asked = Append(@, [command |-> command, answer |-> gated.kind])]
         ELSE IF ~gated.value
         THEN [legacy EXCEPT
                 !.at = "returned",
                 !.asked = Append(@, [command |-> command, answer |-> "no"]),
                 !.command_results = Append(@, CommandSkipped)]
         ELSE [legacy EXCEPT
                 !.asked = Append(@, [command |-> command, answer |-> "yes"]),
                 !.sent = Append(@, command),
                 !.command_results = Append(@, runtime_execute_ssh_command(command, out))]
  /\ LegacyUnchanged

\* one round of "for command in commands": the gate, then either the skipped
\* result or the command over SSH.  Ctrl-C at the prompt ends the call with
\* KeyboardInterrupt; without a valid answer the call stays in input()
LegacyCommand(keys, out) ==
  /\ pc = "legacy"
  /\ legacy.at = "commands"
  /\ Len(legacy.command_results) < Len(legacy.commands)
  /\ \E command \in {legacy.commands[Len(legacy.command_results) + 1]} :
     \E gated \in {get_user_confirmation(keys, <<"y">>)} :
       legacy' =
         IF gated.kind # "answer"
         THEN [legacy EXCEPT
                 !.at = IF gated.kind = "interrupt" THEN "interrupted" ELSE "blocked",
                 !.asked = Append(@, [command |-> command, answer |-> gated.kind])]
         ELSE IF ~gated.value
         THEN [legacy EXCEPT
                 !.asked = Append(@, [command |-> command, answer |-> "no"]),
                 !.command_results = Append(@, CommandSkipped)]
         ELSE [legacy EXCEPT
                 !.asked = Append(@, [command |-> command, answer |-> "yes"]),
                 !.sent = Append(@, command),
                 !.command_results = Append(@, runtime_execute_ssh_command(command, out))]
  /\ LegacyUnchanged

\* return command_results
LegacyCommandsReturn ==
  /\ pc = "legacy"
  /\ legacy.at = "commands"
  /\ Len(legacy.command_results) = Len(legacy.commands)
  /\ legacy' = [legacy EXCEPT !.at = "returned"]
  /\ LegacyUnchanged

NextLegacyCommands ==
  \/ \E keys \in KeySeqs : \E out \in SshOuts : LegacyCommand(keys, out)
  \/ LegacyCommandsReturn

SpecLegacyCommands == InitLegacyCommands /\ [][NextLegacyCommands]_vars

(***************************************************************************)
(* main() of the legacy runtime up to the handling of a reply.  A parsed   *)
(* reply is an instance of Request (src/runtime/models.py), which has the  *)
(* fields thoughts, commands and browser_actions and no recommendation:    *)
(* reading request.recommendation raises AttributeError, which nothing     *)
(* catches, so main() ends there on its first reply.                       *)
(***************************************************************************)
MaxLegacyCalls == 4

\* the contents of prompts/system.md
runtime_system_prompt == <<"system.md">>

NextCommandsPrompt == <<"Please provide the next set of commands.">>

RateLimitMsg ==
  Msg("system", <<"OpenAI API rate limit reached. Please try producing shorter output.">>, None)

\* the replies of the model: instances of Request
Requests ==
  {[thoughts |-> Thoughts, commands |-> cs, browser_actions |-> bs] :
     cs \in SSHCommandLists,
     bs \in {<<>>, <<[action |-> "navigate", target |-> "u1"]>>}}

\* completion.choices[0].message.content of a reply
RequestContent(request) ==
  <<"thoughts">> \o request.thoughts \o <<"commands">> \o request.commands
  \o <<"browser_actions">>
  \o Flatten([i \in 1..Len(request.browser_actions) |->
                <<request.browser_actions[i].action, request.browser_actions[i].target>>])

\* main() up to the loop
InitLegacyMain ==
  /\ pc = "legacy"
  /\ NoOS
  /\ gate = NoGate
  /\ ssh_frame = NoSSHCall
  /\ exec_frame = NoExecCall
  /\ echo_frame = NoEchoCall
  /\ legacy = [NoLegacy EXCEPT
       !.at = "main",
       !.conversation = <<Msg("system", runtime_system_prompt, None),
                          Msg("user", NextCommandsPrompt, None)>>]
  /\ browser_frame = NoBrowserCall

\* the completion call raises openai.RateLimitError: conversation.pop(), the
\* corrective system message, continue
LegacyRateLimited(limit) ==
  /\ pc = "legacy"
  /\ legacy.at = "main"
  /\ legacy.calls < limit
  /\ legacy' = [legacy EXCEPT
       !.calls = @ + 1,
       !.removed = Append(@, legacy.conversation[Len(legacy.conversation)]),
       !.conversation = Append(SubSeq(@, 1, Len(@) - 1), RateLimitMsg)]
  /\ LegacyUnchanged

\* the completion call returns a reply: the assistant message is appended and
\* request.recommendation raises AttributeError
LegacyReply(limit) ==
  /\ pc = "legacy"
  /\ legacy.at = "main"
  /\ legacy.calls < limit
  /\ \E request \in Requests :
       legacy' = [legacy EXCEPT
         !.calls = @ + 1,
         !.at = "crashed",
         !.conversation = Append(@, Msg("assistant", RequestContent(request), None))]
  /\ LegacyUnchanged

\* the completion call raises anything else: nothing catches it
LegacyTransportError(limit) ==
  /\ pc = "legacy"
  /\ legacy.at = "main"
  /\ legacy.calls < limit
  /\ legacy' = [legacy EXCEPT !.calls = @ + 1, !.at = "crashed"]
  /\ LegacyUnchanged

NextLegacyMain ==
  \/ LegacyRateLimited(MaxLegacyCalls)
  \/ LegacyReply(MaxLegacyCalls)
  \/ LegacyTransportError(MaxLegacyCalls)

SpecLegacyMain == InitLegacyMain /\ [][NextLegacyMain]_vars

(***************************************************************************)
(* Properties.                                                             *)
(***************************************************************************)
RegisteredNames == {apps[i].name : i \in 1..Len(apps)}

\* the type tags of the variants of a schema's action field, in order
Tags(schema) == [i \in 1..Len(schema.action) |-> schema.action[i].type]

\* C1: at the home screen with at least one registered app, the composed
\* schema's action field has exactly one variant, launch_app, and the values its
\* app_name admits are exactly the registered names: a reply decodes against
\* the schema iff it is launch_app of a registered name.
C1_HomeSchema ==
  (current_app = None /\ apps # <<>>) =>
    /\ ~current_response_format(apps, current_app).raised
    /\ Len(current_response_format(apps, current_app).action) = 1
    /\ current_response_format(apps, current_app).action[1].type = "launch_app"
    /\ current_response_format(apps, current_app).action[1].app_name = RegisteredNames
    /\ \A a \in Replies :
         Conforms(current_response_format(apps, current_app), a)
           <=> (a.type = "launch_app" /\ a.app_name \in RegisteredNames)

\* C1 witness: the loop composed the home schema over a registry of two apps
\* and dispatched the launch_app reply that decoded against it.
C1_Witness ==
  /\ pc = "loop"
  /\ Len(apps) = 2
  /\ last.op = "turn"
  /\ last.before = None
  /\ last.transport = "reply"
  /\ last.action.type = "launch_app"

\* the tags the action models of each app class declare (src/ami/apps)
DeclaredTags(app) ==
  CASE AppKind(app) = "echo" -> {"echo"}
    [] AppKind(app) = "ssh" -> {"ssh"}
    [] AppKind(app) = "browser" -> {"navigate", "click"}

\* C2: inside an app the composed schema's action union is the app's own
\* action models plus exit_app: each once, nothing else, launch_app not among
\* them; a reply decodes against it iff its tag is one of those.
C2_AppSchema ==
  current_app # None =>
    /\ ~current_response_format(apps, current_app).raised
    /\ Range(Tags(current_response_format(apps, current_app)))
         = DeclaredTags(current_app) \cup {"exit_app"}
    /\ Len(Tags(current_response_format(apps, current_app)))
         = Cardinality(DeclaredTags(current_app)) + 1
    /\ "launch_app" \notin Range(Tags(current_response_format(apps, current_app)))
    /\ \A a \in Replies :
         Conforms(current_response_format(apps, current_app), a)
           <=> a.type \in DeclaredTags(current_app) \cup {"exit_app"}

\* C2 witness: in the browser app (two action models) the loop dispatched a
\* reply decoded against the in-app schema.
C2_Witness ==
  /\ pc = "loop"
  /\ last.op = "turn"
  /\ last.before = "b1"
  /\ last.transport = "reply"
  /\ last.action.type \in {"navigate", "click", "exit_app"}

\* the last operation called handle_agent_action
Dispatched == last.op \in {"turn", "dispatch"} /\ last.action.type # ""

\* C3: handle_agent_action asks the gate once per action: a call that returns
\* has asked exactly once, and current_app changes, the conversation grows, the
\* page changes or a handler runs only in a call that asked once and was told
\* yes in that call; no call asks twice or runs two handlers.
C3_GateOncePerAction ==
  [][Dispatched' =>
       /\ last'.asked \in {0, 1}
       /\ last'.kind = "return" => last'.asked = 1
       /\ (current_app' # current_app \/ conversation' # conversation \/ page' # page
           \/ last'.handled # <<>>)
            => (last'.asked = 1 /\ last'.answer = "accept")
       /\ Len(last'.handled) <= 1]_vars

\* C3 witness: after a launch, a second call ran an app handler, having asked
\* once and been told yes.
C3_Witness ==
  /\ last.op = "dispatch"
  /\ direct = 2
  /\ last.before # None
  /\ last.handled # <<>>
  /\ last.asked = 1
  /\ last.answer = "accept"

\* C4: when the user declines, the call returns "Action denied by user",
\* current_app, conversation (no usage prompt) and page stay as they were and no
\* handler runs; declining the same action again leaves current_app the same
\* once more.
C4_DeclineChangesNothing ==
  [][(Dispatched' /\ last'.op = "dispatch" /\ last'.answer = "decline") =>
       /\ last'.kind = "return"
       /\ last'.text = <<"Action denied by user">>
       /\ last'.handled = <<>>
       /\ current_app' = current_app
       /\ conversation' = conversation
       /\ page' = page
       /\ (last.answer = "decline" /\ last.action = last'.action)
            => current_app' = last.before]_vars

\* C4 witness: the user declined the same launch twice in a row.
C4_Witness ==
  /\ last.op = "dispatch"
  /\ direct = 2
  /\ last.answer = "decline"
  /\ last.action.type = "launch_app"
  /\ HasKey(apps, last.action.app_name)
  /\ Len(conversation) <= 2
  /\ current_app = None

EndsWithError(conv) ==
  /\ conv # <<>>
  /\ conv[Len(conv)].role = "system"
  /\ SubSeq(conv[Len(conv)].content, 1, 1) = <<"Error occurred: ">>
  /\ Len(conv[Len(conv)].content) > 1

\* C6: at the home screen every action other than launch_app fails, and the
\* error goes into the conversation: the iteration of the loop appends one
\* "Error occurred" system message and nothing else, the gate is not asked, no
\* handler runs and current_app stays None.  Such a reply does not decode
\* against the home schema, and handle_agent_action itself raises on such an
\* action without asking the gate; the loop turns what it raises into that
\* message.
C6_HomeRejectsOtherActions ==
  /\ (last.op = "turn" /\ last.before = None /\ last.action.type \notin {"", "launch_app"})
       => /\ last.kind = "raise"
          /\ last.asked = 0
          /\ last.handled = <<>>
          /\ current_app = None
          /\ pc = "loop"
          /\ Len(conversation) = last.len + 1
          /\ EndsWithError(conversation)
  /\ (pc = "loop" /\ current_app = None) =>
       \A a \in {r \in Replies : r.type # "launch_app"} :
         \A keys \in KeySeqs : \A env \in EnvsFor(a) :
           /\ ~Conforms(current_response_format(apps, current_app), a)
           /\ \A out \in {handle_agent_action(apps, current_app, conversation, page,
                                              a, keys, env)} :
                /\ out.kind = "raise"
                /\ out.error # <<>>
                /\ out.asked = 0
                /\ out.handled = <<>>
                /\ out.current_app = None
                /\ out.conversation = conversation
                /\ AfterDispatch(TurnRecord("reply", current_app, conversation), out).pc = "loop"
                /\ AfterDispatch(TurnRecord("reply", current_app, conversation), out).conversation
                     = Append(conversation, ErrorMsg(out.error))

\* C6 witness: the model answered exit_app at the home screen, and the loop
\* goes on with the error in the conversation.
C6_Witness ==
  /\ last.op = "turn"
  /\ last.before = None
  /\ last.action.type = "exit_app"
  /\ last.kind = "raise"
  /\ pc = "loop"
  /\ EndsWithError(conversation)

\* C7: in every turn of the loop, a confirmed launch_app(n) at the home screen
\* leaves current_app the app registered under n, and a confirmed exit_app right
\* after it leaves current_app None, as it was after construction.
C7_LaunchExitRoundTrip ==
  /\ \A i \in 1..Len(turns) :
       (turns[i].action.type = "launch_app" /\ turns[i].answer = "accept") =>
          /\ HasKey(apps, turns[i].action.app_name)
          /\ turns[i].kind = "return"
          /\ turns[i].after = Item(apps, turns[i].action.app_name)
          /\ AppName(turns[i].after) = turns[i].action.app_name
          /\ (i < Len(turns) /\ turns[i + 1].action.type = "exit_app"
                /\ turns[i + 1].answer = "accept")
               => (turns[i + 1].kind = "return" /\ turns[i + 1].after = None)
  /\ (turns = <<>> /\ pc \in {"setup", "crashed"}) => current_app = None

\* C7 witness: launch_app("ssh") and then exit_app, both confirmed, with more
\* than one app registered; current_app is None again.
C7_Witness ==
  /\ Len(turns) = 2
  /\ Len(apps) > 1
  /\ turns[1].action = LaunchAppAction("ssh")
  /\ turns[1].answer = "accept"
  /\ turns[1].after = "s1"
  /\ turns[2].action = ExitAppAction
  /\ turns[2].answer = "accept"
  /\ current_app = None

\* t occurs in s as a run of consecutive elements
Contains(s, t) ==
  \E i \in 0..(Len(s) - Len(t)) : SubSeq(s, i + 1, i + Len(t)) = t

HELLO_WORLD == <<"H", "E", "L", "L", "O", " ", "W", "O", "R", "L", "D">>

\* the three turns of the echo scenario, each confirmed by the user
EchoScenario ==
  /\ Len(turns) >= 3
  /\ turns[1].action = LaunchAppAction("echo")
  /\ turns[2].action = EchoAction(HelloWorld, "uppercase")
  /\ turns[3].action = ExitAppAction
  /\ \A i \in 1..3 : turns[i].answer = "accept"

\* C8: with the registry {echo}, the confirmed turns launch_app("echo"),
\* echo("Hello World", "uppercase"), exit_app give, in this order, the result
\* "Launched app: echo" inside echo, a result that contains "HELLO WORLD" still
\* inside echo, and "Returned to home screen" at the home screen.
C8_EchoScenario ==
  EchoScenario =>
    /\ turns[1].kind = "return"
    /\ turns[1].text = <<"Launched app: ", "echo">>
    /\ turns[1].after = "e1"
    /\ turns[2].kind = "return"
    /\ Contains(turns[2].text, HELLO_WORLD)
    /\ turns[2].after = "e1"
    /\ turns[3].kind = "return"
    /\ turns[3].text = <<"Returned to home screen">>
    /\ turns[3].after = None
    /\ Len(turns) = 3 => current_app = None

\* C8 witness: the three turns have happened and their results are in the
\* conversation as user messages.
C8_Witness ==
  /\ EchoScenario
  /\ pc = "loop"
  /\ RegisteredNames = {"echo"}
  /\ conversation[Len(conversation)] = Msg("user", <<"Returned to home screen">>, None)

\* C9: with no app registered, OS.run raises before the first call of the
\* Transport Adapter, and the schema of the home screen cannot be composed: the
\* loop is never entered with an empty registry.
C9_NoAppsNoStart ==
  /\ current_response_format(<<>>, None).raised
  /\ apps = <<>> => current_response_format(apps, current_app).raised
  /\ (last.op = "run" /\ apps = <<>>)
       => (pc = "crashed" /\ last.kind = "raise" /\ last.exc = "ValueError")
  /\ pc = "crashed" => (calls = 0 /\ turns = <<>> /\ Len(conversation) = last.len)
  /\ pc \in {"loop", "stopped"} => apps # <<>>
  /\ calls > 0 => apps # <<>>

\* C9 witness: os.run() was called with the registry empty.
C9_Witness ==
  /\ last.op = "run"
  /\ apps = <<>>
  /\ pc = "crashed"
  /\ calls = 0

\* C10: a reply that does not decode against the requested schema does not end
\* the loop: the conversation gains one system message that reports the error
\* and nothing else, current_app and the page stay as they were, the gate is not
\* asked, no handler runs, and the loop goes on.
C10_SchemaViolationRecovers ==
  [][(last'.op = "turn" /\ last'.transport = "violation") =>
       /\ pc' = "loop"
       /\ conversation' =
            Append(conversation,
                   ErrorMsg(<<"validation error for ",
                              current_response_format(apps, current_app).name>>))
       /\ current_app' = current_app
       /\ page' = page
       /\ last'.asked = 0
       /\ last'.handled = <<>>
       /\ calls' = calls + 1]_vars

\* C10 witness: inside an app the model sent a reply outside the schema; the
\* app is still active and the loop goes on.
C10_Witness ==
  /\ last.op = "turn"
  /\ last.transport = "violation"
  /\ last.before # None
  /\ current_app = last.before
  /\ pc = "loop"
  /\ Len(conversation) = last.len + 1
  /\ EndsWithError(conversation)

\* C11: when the Transport Adapter call raises, OS.run catches the exception:
\* the conversation gains the system message "Error occurred: ..." that
\* describes it and nothing else, current_app and the page are unchanged, and
\* the loop is at its top again with a schema it can compose, so the next thing
\* it does is call the Transport Adapter again.
C11_TransportErrorRetried ==
  [][(last'.op = "turn" /\ last'.transport = "error") =>
       /\ pc' = "loop"
       /\ conversation' =
            Append(conversation,
                   Msg("system", <<"Error occurred: ", "Connection error.">>, None))
       /\ current_app' = current_app
       /\ page' = page
       /\ calls' = calls + 1
       /\ ~current_response_format(apps', current_app').raised]_vars

\* C11 witness: the first Transport Adapter call failed, and the call after it
\* brought a launch_app that the user confirmed.
C11_Witness ==
  /\ calls = 2
  /\ last.op = "turn"
  /\ last.transport = "reply"
  /\ last.action.type = "launch_app"
  /\ last.answer = "accept"
  /\ current_app # None
  /\ conversation[last.len] = Msg("system", <<"Error occurred: ", "Connection error.">>, None)

\* C12: when a confirmed app action makes handle_response raise, the loop
\* goes on: after the assistant message of the turn the conversation gains the
\* system message "Error occurred: ..." with the exception's text and nothing
\* else, and current_app is still the app whose handler raised.
C12_HandlerErrorSurfaced ==
  [][(last'.op = "turn" /\ last'.handled # <<>> /\ last'.kind = "raise"
        /\ last'.unpack = "none") =>
       /\ pc' = "loop"
       /\ last'.answer = "accept"
       /\ current_app # None
       /\ current_app' = current_app
       /\ last'.handled = <<[app |-> current_app, type |-> last'.action.type]>>
       /\ Len(conversation') = Len(conversation) + 2
       /\ SubSeq(conversation', 1, Len(conversation)) = conversation
       /\ conversation'[Len(conversation) + 1] = AssistantMsg(last'.action)
       /\ EndsWithError(conversation')]_vars

\* C12 witness: inside the browser a confirmed navigate raised (the page did
\* not load); the browser is still the current app and the loop goes on.
C12_Witness ==
  /\ last.op = "turn"
  /\ last.action.type = "navigate"
  /\ last.handled # <<>>
  /\ last.kind = "raise"
  /\ last.unpack = "none"
  /\ current_app = "b1"
  /\ pc = "loop"
  /\ EndsWithError(conversation)

\* C13: a launch_app whose app_name the registry does not hold fails also
\* when the user confirms it: handle_agent_action raises (a KeyError that names
\* the app), current_app is what it was, the conversation has gained no usage
\* prompt, and the loop of OS.run turns such an exception into one system
\* message "Error occurred: ..." and goes on.
C13_UnknownAppFails ==
  /\ (last.op = "dispatch" /\ last.action.type = "launch_app" /\ last.answer = "accept"
        /\ ~HasKey(apps, last.action.app_name))
       => /\ last.kind = "raise"
          /\ last.exc = "KeyError"
          /\ last.asked = 1
          /\ current_app = last.before
          /\ Len(conversation) = last.len
  /\ \A n \in {"echo", "ssh", "browser", "nope"} \ RegisteredNames :
       \A keys \in {ks \in KeySeqs : Gate(ks).kind = "answer" /\ Gate(ks).value} :
         \A out \in {handle_agent_action(apps, current_app, conversation, page,
                                         LaunchAppAction(n), keys, NoEnv)} :
           /\ out.kind = "raise"
           /\ out.exc = "KeyError"
           /\ out.error = <<"'", n, "'">>
           /\ out.current_app = current_app
           /\ out.conversation = conversation
           /\ \A it \in {AfterDispatch(TurnRecord("reply", current_app, conversation), out)} :
                /\ it.pc = "loop"
                /\ it.current_app = current_app
                /\ it.conversation = Append(conversation, ErrorMsg(out.error))

\* C13 witness: at the home screen, with an app registered, the user confirmed
\* the launch of "nope" and the call raised.
C13_Witness ==
  /\ last.op = "dispatch"
  /\ last.action = LaunchAppAction("nope")
  /\ last.answer = "accept"
  /\ last.kind = "raise"
  /\ apps # <<>>
  /\ last.before = None
  /\ current_app = None

\* C14: the loop of OS.run calls handle_response only on the current app, with
\* the action of the turn, and only when the tag of that action is one that the
\* app's get_action_models() declares.
C14_HandlerGetsDeclaredTags ==
  (last.op = "turn" /\ last.handled # <<>>) =>
    /\ Len(last.handled) = 1
    /\ last.before # None
    /\ last.handled[1].app = last.before
    /\ last.handled[1].type = last.action.type
    /\ last.action.type \in Range(get_action_models(last.before))
    /\ last.answer = "accept"
    /\ Item(apps, AppName(last.before)) = last.before

\* C14 witness: inside the browser the loop passed a click to the browser's
\* handler.
C14_Witness ==
  /\ last.op = "turn"
  /\ last.before = "b1"
  /\ last.handled = <<[app |-> "b1", type |-> "click"]>>

\* C15: once OS.run is in its loop, the loop ends only by a user interrupt:
\* every iteration that leaves the loop was interrupted (at the Transport
\* Adapter call or at the confirmation prompt), and an iteration in which
\* something raised (transport error, reply outside the schema, refusal, unknown
\* app, handler error, a result that is not a pair) stays in the loop.
C15_OnlyInterruptEndsLoop ==
  [][pc = "loop" =>
       /\ pc' \in {"loop", "stopped"}
       /\ apps # <<>>
       /\ pc' = "stopped" => (last'.op = "turn" /\ last'.kind = "interrupt")
       /\ (last'.op = "turn" /\ last'.kind \in {"raise", "return"}) => pc' = "loop"]_vars

\* C15 witness: an iteration raised, the loop went on, and the user's
\* interrupt in the next iteration ended it.
C15_Witness ==
  /\ pc = "stopped"
  /\ calls = 2
  /\ last.kind = "interrupt"
  /\ EndsWithError(conversation)

\* C16: when a confirmed app action's handler returns (a non-empty text), the
\* iteration takes the (text, image) pair apart and the conversation gains,
\* after the assistant message of the turn, the user message with that text.
C16_ResultAppended ==
  (last.op = "turn" /\ last.handled # <<>> /\ last.text # <<>>
     /\ (last.kind = "return" \/ last.unpack = "failed"))
    => /\ last.unpack = "done"
       /\ Len(conversation) = last.len + 2
       /\ conversation[last.len + 1] = AssistantMsg(last.action)
       /\ conversation[last.len + 2].role = "user"
       /\ conversation[last.len + 2].content = last.text

\* C16: the state the code reaches instead: the browser went to the page, its
\* handler returned the page text as a bare str, and the conversation ends with
\* the report of the failed unpacking, not with the page text.
C16_Reached ==
  /\ last.op = "turn"
  /\ last.handled = <<[app |-> "b1", type |-> "navigate"]>>
  /\ last.unpack = "failed"
  /\ page = "u2"
  /\ last.text = get_annotated_page_content("u2")
  /\ conversation[Len(conversation)] =
       Msg("system", <<"Error occurred: ", "too many values to unpack (expected 2)">>, None)

\* C17: the conversation only grows: every step keeps the messages recorded
\* so far, in place and in order, and adds to the end.  A turn whose reply could
\* not be used as a reply (the call raised, the reply did not decode, or there
\* was no parsed object) adds no assistant message: the assistant message is
\* appended only after the reply was decoded, so there is nothing to take back.
C17_AppendOnly ==
  [][/\ Len(conversation') >= Len(conversation)
     /\ SubSeq(conversation', 1, Len(conversation)) = conversation
     /\ (last'.op = "turn" /\ last'.transport \in {"error", "violation", "refusal"})
          => \A i \in (Len(conversation) + 1)..Len(conversation') :
               conversation'[i].role # "assistant"
     /\ (last'.op = "turn" /\ last'.transport = "reply")
          => conversation'[Len(conversation) + 1] = AssistantMsg(last'.action)]_vars

\* C17 witness: after a turn that appended an assistant message and a result,
\* a reply that did not decode added only the error message.
C17_Witness ==
  /\ calls = 2
  /\ last.op = "turn"
  /\ last.transport = "violation"
  /\ Len(conversation) = last.len + 1
  /\ conversation[last.len].role = "user"
  /\ conversation[last.len - 1].role \in {"assistant", "system"}
  /\ \E i \in 1..last.len : conversation[i].role = "assistant"

\* C18: the messages of every request to the Transport Adapter (the
\* conversation as it is when the call is made) hold the prompt of the state:
\* at the home screen a system message with the list of the registered apps'
\* names and descriptions, inside an app a system message with the app's usage
\* prompt as it reads at that turn.
C18_PromptInRequest ==
  [][(last'.op = "turn" /\ calls' = calls + 1) =>
       \E i \in 1..Len(conversation) :
         /\ conversation[i].role = "system"
         /\ conversation[i].content =
              (IF current_app = None THEN system_prompt(apps, current_app)
               ELSE usage_prompt(current_app, page))]_vars

\* C18: the state the code reaches instead: the first request was made at the
\* home screen, and none of the messages it carried lists the registered apps.
C18_Reached ==
  /\ last.op = "turn"
  /\ last.transport = "reply"
  /\ calls = 1
  /\ last.before = None
  /\ Len(apps) > 1
  /\ \A i \in 1..last.len :
       /\ conversation[i].content # system_prompt(apps, None)
       /\ \A j \in 1..Len(apps) : ~Contains(conversation[i].content, <<description(apps[j].app)>>)

\* the first line typed that is not a wrong answer (0: there is none)
FirstDecisive(keys) ==
  IF \E k \in 1..Len(keys) : keys[k] \notin OtherLines
  THEN CHOOSE k \in 1..Len(keys) :
         keys[k] \notin OtherLines /\ \A j \in 1..(k - 1) : keys[j] \in OtherLines
  ELSE 0

\* C19: get_user_confirmation returns True for "y" and "yes" and False for "n"
\* and "no", in any letter case and with white space around them; a blank line
\* counts as the default; after any other line it asks again, so it returns
\* only at the first line that is an answer, and while none has come (or when
\* the user interrupts) it does not return.
C19_GateAnswers ==
  gate.asked =>
    \A k \in {FirstDecisive(gate.keys)} :
      IF k = 0
      THEN gate.result.kind = "blocked" /\ gate.result.reads = Len(gate.keys)
      ELSE /\ gate.result.reads = k
           /\ gate.keys[k] = CtrlC => gate.result.kind = "interrupt"
           /\ gate.keys[k] \in YesLines
                => (gate.result.kind = "answer" /\ gate.result.value)
           /\ gate.keys[k] \in NoLines
                => (gate.result.kind = "answer" /\ ~gate.result.value)
           /\ gate.keys[k] \in BlankLines
                => /\ gate.result.kind = "answer"
                   /\ gate.result.value = (gate.default \in {<<"y">>, <<"Y">>})

\* C19 witness: with the default 'N', the user typed a wrong answer and then a
\* blank line: the call asked twice and returned False.
C19_Witness ==
  /\ gate.asked
  /\ gate.default = <<"N">>
  /\ gate.keys = << <<"y", "e">>, <<" ", "\t">> >>
  /\ gate.result = [kind |-> "answer", value |-> FALSE, reads |-> 2]

\* C20: a turn that the user's interrupt ended did not execute its action:
\* the loop has stopped, no handler was called, current_app and the page are
\* what they were before the turn, and of the turn only the assistant message
\* is in the conversation.
C20_InterruptNotMidAction ==
  (last.op = "turn" /\ last.kind = "interrupt") =>
    /\ pc = "stopped"
    /\ last.handled = <<>>
    /\ last.ran = 0
    /\ current_app = last.before
    /\ Len(conversation) <= last.len + 1

\* C20: the state the code reaches instead: the interrupt came while the ssh
\* handler ran the second of two commands; the first has run, the loop has
\* stopped, and the conversation holds no result.
C20_Reached ==
  /\ pc = "stopped"
  /\ last.op = "turn"
  /\ last.kind = "interrupt"
  /\ last.action = SSHAction(<<"ls", "id">>)
  /\ last.handled = <<[app |-> "s1", type |-> "ssh"]>>
  /\ last.ran = 1
  /\ conversation[Len(conversation)] = AssistantMsg(last.action)

\* C21: composing the schema changes nothing, and every iteration composes it
\* anew from the state it starts in: an iteration that composed the schema and
\* was interrupted in the Transport Adapter call leaves registry, current_app,
\* conversation and page as they were; no iteration changes the registry; a
\* reply is taken as the action of the turn only if it decodes against the
\* schema of current_app and the registered names as they are at that turn,
\* and inside an app a reply is refused only if its tag is not in that schema.
C21_SchemaPerTurn ==
  [][last'.op = "turn" =>
       /\ apps' = apps
       /\ (last'.transport = "interrupt")
            => (current_app' = current_app /\ conversation' = conversation /\ page' = page)
       /\ (last'.transport = "reply")
            => Conforms(current_response_format(apps, current_app), last'.action)
       /\ (last'.transport = "violation" /\ current_app # None)
            => last'.action.type
                 \notin Range(Tags(current_response_format(apps, current_app)))]_vars

\* C21 witness: the first turn was decoded against the home schema (a launch),
\* the second against the schema of the app it launched.
C21_Witness ==
  /\ calls = 2
  /\ Len(turns) = 2
  /\ turns[1].action.type = "launch_app"
  /\ turns[1].answer = "accept"
  /\ last.op = "turn"
  /\ last.transport = "reply"
  /\ last.before = turns[1].after
  /\ last.action.type \in Range(get_action_models(last.before))
  /\ ~Conforms(current_response_format(apps, None), last.action)

\* C22: a turn in which the handler of the current app was called for a
\* confirmed action leaves current_app that same app, whether the handler
\* returned, raised, returned something the loop could not take apart, or was
\* interrupted.
C22_AppActionKeepsApp ==
  [][(last'.op = "turn" /\ last'.handled # <<>>) =>
       /\ current_app # None
       /\ current_app' = current_app
       /\ last'.handled[1].app = current_app
       /\ last'.answer = "accept"
       /\ last'.action.type \notin {"launch_app", "exit_app"}]_vars

\* C22 witness: inside the ssh app a confirmed ssh action returned its result;
\* the ssh app is still the current app.
C22_Witness ==
  /\ last.op = "turn"
  /\ last.handled = <<[app |-> "s1", type |-> "ssh"]>>
  /\ last.kind = "return"
  /\ last.unpack = "done"
  /\ last.before = "s1"
  /\ current_app = "s1"
  /\ pc = "loop"

\* C23: a turn whose action was dispatched and came back without an error
\* leaves in the conversation, after the assistant message of the turn, exactly
\* one result message (a user message), and the conversation ends with it,
\* whatever the text of the result.
C23_ResultEveryTurn ==
  (last.op = "turn" /\ last.transport = "reply" /\ last.kind = "return"
     /\ last.unpack = "done")
    => /\ Len(conversation) >= last.len + 2
       /\ conversation[last.len + 1] = AssistantMsg(last.action)
       /\ conversation[Len(conversation)].role = "user"
       /\ conversation[Len(conversation)].content = last.text
       /\ Cardinality({i \in (last.len + 1)..Len(conversation) :
                         conversation[i].role = "user"}) = 1

\* C23: the state the code reaches instead: a confirmed ssh action with an
\* empty command list returned the empty text, and the conversation ends with
\* the assistant message of the turn.
C23_Reached ==
  /\ last.op = "turn"
  /\ last.action = SSHAction(<<>>)
  /\ last.handled = <<[app |-> "s1", type |-> "ssh"]>>
  /\ last.kind = "return"
  /\ last.unpack = "done"
  /\ last.text = <<>>
  /\ pc = "loop"
  /\ Len(conversation) = last.len + 1
  /\ conversation[Len(conversation)] = AssistantMsg(last.action)

\* the remote end's exit status of the i-th command of the call, -1 when the
\* execution failed with an exception
RemoteStatus(i) == IF ssh_frame.outs[i].exc THEN -1 ELSE ssh_frame.outs[i].status

RECURSIVE SplitLines(_)
\* text.split("\n")
SplitLines(text) ==
  IF \A k \in 1..Len(text) : text[k] # "\n" THEN <<text>>
  ELSE LET j == CHOOSE k \in 1..Len(text) :
                  text[k] = "\n" /\ \A h \in 1..(k - 1) : text[h] # "\n"
       IN <<SubSeq(text, 1, j - 1)>> \o SplitLines(SubSeq(text, j + 1, Len(text)))

\* the lines of the text SSHApp.handle_response returned
ResultLines == SplitLines(ssh_frame.text)

\* the lines of a text that open a block, in order
CommandLines(lines) == SelectSeq(lines, LAMBDA l : l # <<>> /\ l[1] = "Command ")

\* C24: every command SSHApp executed is reported with the exit status of the
\* remote command, in the CommandResult and in the "Exit code" line of its
\* block: exit status 0 is reported as 0, and -1 only when the execution failed
\* with an exception.
C24_ExitCodeReported ==
  /\ \A i \in 1..Len(ssh_frame.results) :
       /\ ssh_frame.results[i].exit_code = RemoteStatus(i)
       /\ ssh_frame.results[i].exit_code = -1 => ssh_frame.outs[i].exc
  /\ ssh_frame.returned =>
       \A i \in 1..Len(ssh_frame.commands) :
         \E k \in 1..(Len(ResultLines) - 1) :
           /\ ResultLines[k] = <<"Command ", ToString(i), ": ", ssh_frame.commands[i]>>
           /\ ResultLines[k + 1] = <<"Exit code: ", ToString(RemoteStatus(i))>>

\* C24: the state the code reaches instead: the only command of the action ran
\* to exit status 0 without an exception and is reported with exit code -1.
C24_Reached ==
  /\ pc = "ssh"
  /\ ssh_frame.returned
  /\ ssh_frame.commands = <<"ls">>
  /\ ~ssh_frame.outs[1].exc
  /\ ssh_frame.outs[1].status = 0
  /\ ssh_frame.results[1].exit_code = -1
  /\ ResultLines[1] = <<"Command ", "1", ": ", "ls">>
  /\ ResultLines[2] = <<"Exit code: ", "-1">>

\* C25: SSHApp.handle_response executes the commands of the action one at a
\* time in list order, each once, goes on after a command that failed, and
\* returns one "Command i" block per command, in the order of the list, each
\* with the result of that command.
C25_CommandsInOrder ==
  /\ Len(ssh_frame.executed) <= Len(ssh_frame.commands)
  /\ ssh_frame.executed = SubSeq(ssh_frame.commands, 1, Len(ssh_frame.executed))
  /\ Len(ssh_frame.results) = Len(ssh_frame.executed)
  /\ ssh_frame.returned =>
       /\ ssh_frame.executed = ssh_frame.commands
       /\ ssh_frame.image = None
       /\ CommandLines(ResultLines)
            = [i \in 1..Len(ssh_frame.commands) |->
                 <<"Command ", ToString(i), ": ", ssh_frame.commands[i]>>]
       /\ \A i \in 1..Len(ssh_frame.commands) :
            \E k \in 1..(Len(ResultLines) - 1) :
              /\ ResultLines[k] = <<"Command ", ToString(i), ": ", ssh_frame.commands[i]>>
              /\ ResultLines[k + 1]
                   = <<"Exit code: ", ToString(PyOr(RemoteStatus(i), -1))>>

\* C25 witness: three commands, the first failed with an exception, the second
\* with a non-zero exit status, and all three were executed and reported.
C25_Witness ==
  /\ pc = "ssh"
  /\ ssh_frame.returned
  /\ ssh_frame.commands = <<"id", "ls", "id">>
  /\ ssh_frame.outs[1].exc
  /\ ~ssh_frame.outs[2].exc /\ ssh_frame.outs[2].status = 1
  /\ ssh_frame.executed = <<"id", "ls", "id">>
  /\ Len(CommandLines(ResultLines)) = 3

RECURSIVE Written(_, _)
\* the bytes the pieces of writes put on stream to, in order
Written(writes, to) ==
  IF writes = <<>> THEN <<>>
  ELSE (IF Head(writes).to = to THEN Head(writes).data ELSE <<>>) \o Written(Tail(writes), to)

\* everything the remote command writes to stdout / to stderr during the call
AllStdout == Utf8Decode(exec_frame.sent_out \o Written(exec_frame.remote.writes, "out")).text

AllStderr == Utf8Decode(exec_frame.sent_err \o Written(exec_frame.remote.writes, "err")).text

\* C26: _execute_ssh_command leaves its polling loop by the break only with
\* the exit status ready; when the remote command reports an exit status the
\* returned result holds all of its stdout and stderr data, what was still
\* buffered at that moment included; and with a channel that never reports an
\* exit status and no exception the call does not return.
C26_PollingLoop ==
  /\ exec_frame.left = "status" => exec_frame.status_ready
  /\ (exec_frame.at = "returned" /\ exec_frame.remote.connects /\ exec_frame.remote.exits)
       => /\ exec_frame.result.stdout = AllStdout
          /\ exec_frame.result.stderr = AllStderr
  /\ (exec_frame.remote.connects /\ ~exec_frame.remote.exits /\ ~exec_frame.raised)
       => exec_frame.at \notin {"finally", "return", "returned"}

\* C26: the state the code reaches instead: the remote command wrote "a" and
\* U+00DF (three bytes) and ended with exit status 0; the call returned without
\* any of the output, with the decoding error as stderr.
C26_Reached ==
  /\ pc = "exec"
  /\ exec_frame.at = "returned"
  /\ exec_frame.remote.connects /\ exec_frame.remote.exits /\ exec_frame.remote.status = 0
  /\ exec_frame.sent_out = <<"a", "C3", "9F">>
  /\ exec_frame.remote.writes = <<>>
  /\ exec_frame.raised
  /\ exec_frame.result.stdout = <<>>
  /\ exec_frame.result.stderr = <<"'utf-8' codec can't decode byte">>
  /\ exec_frame.result.exit_code = -1

\* the rest of C26, which the code keeps: without a decoding error the result
\* of a returned call holds all the data
ExecAllDataUnlessRaised ==
  (exec_frame.at = "returned" /\ ~exec_frame.raised)
    => /\ exec_frame.left = "status"
       /\ exec_frame.result.stdout = AllStdout
       /\ exec_frame.result.stderr = AllStderr

\* and a call whose remote command ends does return
ExecTerminates == <>(exec_frame.at = "returned" \/ ~exec_frame.remote.exits)

\* while one whose remote command never ends comes back to the test of the
\* exit status again and again, and returns only through an exception
ExecPollsForever ==
  (exec_frame.remote.connects /\ ~exec_frame.remote.exits)
    ~> (exec_frame.raised \/ (exec_frame.at = "poll_exit" /\ ~exec_frame.status_ready))

ExecNoReturnWithoutStatus ==
  /\ exec_frame.left = "status" => exec_frame.status_ready
  /\ (exec_frame.remote.connects /\ ~exec_frame.remote.exits /\ ~exec_frame.raised)
       => exec_frame.at \notin {"finally", "return", "returned"}

\* the message of the call with effect applied, character by character
Cased(message, effect) ==
  Flatten([i \in 1..Len(message) |->
    CASE effect = "uppercase" -> UpperOf(message[i])
      [] effect = "lowercase" -> LowerOf(message[i])
      [] effect = "reverse" -> <<message[Len(message) + 1 - i]>>
      [] effect = "alternating" -> IF i % 2 = 1 THEN UpperOf(message[i])
                                   ELSE LowerOf(message[i])])

\* the text and the attachment EchoApp.handle_response is to return
EchoReturns ==
  /\ echo_frame.called =>
       /\ echo_frame.ret.kind = "return"
       /\ echo_frame.ret.image = None
       /\ Len(echo_frame.ret.text) >= 3
       /\ SubSeq(echo_frame.ret.text, 1, 3) = <<"Echo (", echo_frame.effect, "): ">>
       /\ EchoResult(echo_frame.ret.text) = Cased(echo_frame.message, echo_frame.effect)
  /\ (echo_frame.repeated /\ echo_frame.effect = "reverse") =>
       EchoResult(echo_frame.again.text) = echo_frame.message

\* every character of the message has one-character case mappings
SimpleCase(message) ==
  \A i \in 1..Len(message) : Len(UpperOf(message[i])) = 1 /\ Len(LowerOf(message[i])) = 1

\* C27 as stated: for every message and effect EchoApp.handle_response returns
\* "Echo (<effect>): <result>" and no attachment, result being the message in
\* upper case, in lower case, reversed, or with the characters at even
\* positions upper-cased and the others lower-cased; the result has as many
\* characters as the message, and reversing twice gives back the message.
C27_EchoLengthKept ==
  /\ EchoReturns
  /\ echo_frame.called => Len(EchoResult(echo_frame.ret.text)) = Len(echo_frame.message)

\* C27 amended: the same, but the result has as many characters as the message
\* for reverse, and for the other effects when every character of the message
\* has one-character case mappings; otherwise it is never shorter.
C27_EchoEffects ==
  /\ EchoReturns
  /\ echo_frame.called =>
       /\ Len(EchoResult(echo_frame.ret.text)) >= Len(echo_frame.message)
       /\ (echo_frame.effect = "reverse" \/ SimpleCase(echo_frame.message))
            => Len(EchoResult(echo_frame.ret.text)) = Len(echo_frame.message)

\* C27 witness: the message "a", U+00DF, "B" was upper-cased to "ASSB", four
\* characters for three, and upper-cased again.
C27_Witness ==
  /\ pc = "echo"
  /\ echo_frame.message = <<"a", SharpS, "B">>
  /\ echo_frame.effect = "uppercase"
  /\ echo_frame.called
  /\ echo_frame.repeated
  /\ echo_frame.ret.text = <<"Echo (", "uppercase", "): ", "A", "S", "S", "B">>
  /\ echo_frame.ret.image = None

RECURSIVE Confirmed(_)
\* the commands of the gate calls that were answered with yes, in order
Confirmed(asked) ==
  IF asked = <<>> THEN <<>>
  ELSE (IF Head(asked).answer = "yes" THEN <<Head(asked).command>> ELSE <<>>)
       \o Confirmed(Tail(asked))

\* C28: execute_commands of the legacy runtime asks the gate once per command,
\* in list order; a declined command is not sent over SSH and gets the result
\* (-1, "", "Command skipped by user"); the commands after a declined one are
\* still asked about; and the returned list has one result per command, in the
\* order of the commands.
C28_LegacyCommandsGated ==
  /\ Len(legacy.asked) <= Len(legacy.commands)
  /\ \A i \in 1..Len(legacy.asked) : legacy.asked[i].command = legacy.commands[i]
  /\ legacy.sent = Confirmed(legacy.asked)
  /\ Len(legacy.command_results) <= Len(legacy.asked)
  /\ Len(legacy.asked) <= Len(legacy.command_results) + 1
  /\ \A i \in 1..Len(legacy.command_results) :
       /\ legacy.asked[i].answer \in {"yes", "no"}
       /\ legacy.asked[i].answer = "no" => legacy.command_results[i] = CommandSkipped
       /\ legacy.asked[i].answer = "yes" =>
            \E out \in SshOuts :
              legacy.command_results[i]
                = runtime_execute_ssh_command(legacy.commands[i], out)
  /\ legacy.at = "returned" =>
       /\ Len(legacy.command_results) = Len(legacy.commands)
       /\ Len(legacy.asked) = Len(legacy.commands)

\* C28 witness: of three commands the first was declined and not sent, the
\* other two were confirmed and sent, and the call returned three results.
C28_Witness ==
  /\ pc = "legacy"
  /\ legacy.at = "returned"
  /\ legacy.commands = <<"ls", "id", "ls">>
  /\ legacy.asked[1].answer = "no"
  /\ legacy.sent = <<"id", "ls">>
  /\ legacy.command_results[1] = CommandSkipped
  /\ legacy.command_results[2].exit_code = 0
  /\ Len(legacy.command_results) = 3

\* C29: in the legacy loop a rate-limit error rolls back only content of the
\* failed turn: the initial user request and the result messages recorded
\* before stay where they are, one corrective system message is appended, the
\* system prompt stays first, and the loop goes on.
C29_RollbackKeepsHistory ==
  [][legacy'.removed # legacy.removed =>
       /\ legacy'.at = "main"
       /\ legacy'.conversation[1] = Msg("system", runtime_system_prompt, None)
       /\ legacy'.conversation[Len(legacy'.conversation)] = RateLimitMsg
       /\ \A i \in 1..Len(legacy.conversation) :
            legacy.conversation[i].role # "system" =>
              /\ i <= Len(legacy'.conversation)
              /\ legacy'.conversation[i] = legacy.conversation[i]
       /\ Len(legacy'.conversation) \in
            {Len(legacy.conversation), Len(legacy.conversation) + 1}]_vars

\* C29: the state the code reaches instead: the first completion call failed
\* with a rate-limit error and the initial user request is gone.
C29_Reached ==
  /\ pc = "legacy"
  /\ legacy.at = "main"
  /\ legacy.calls = 1
  /\ legacy.removed = <<Msg("user", NextCommandsPrompt, None)>>
  /\ legacy.conversation = <<Msg("system", runtime_system_prompt, None), RateLimitMsg>>

\* the rest of C29, which the code keeps: the system prompt stays first, a
\* rollback leaves the corrective message last and the loop running
LegacyRollbackRest ==
  [][/\ legacy'.conversation[1] = Msg("system", runtime_system_prompt, None)
     /\ legacy'.removed # legacy.removed =>
          /\ legacy'.at = "main"
          /\ Len(legacy'.conversation) = Len(legacy.conversation)
          /\ legacy'.conversation[Len(legacy'.conversation)] = RateLimitMsg
          /\ SubSeq(legacy'.conversation, 1, Len(legacy.conversation) - 1)
               = SubSeq(legacy.conversation, 1, Len(legacy.conversation) - 1)]_vars

\* what a turn with a confirmed launch_app adds to the conversation
LaunchGrowth(a) ==
  <<AssistantMsg(a),
    Msg("system", usage_prompt(Item(apps, a.app_name), page), None),
    Msg("user", <<"Launched app: ", a.app_name>>, None)>>

\* the conversation grew by the assistant message of a and one result message
\* with the text text
ResultGrowth(before, after, a, text) ==
  /\ Len(after) = Len(before) + 2
  /\ SubSeq(after, 1, Len(before)) = before
  /\ after[Len(before) + 1] = AssistantMsg(a)
  /\ after[Len(before) + 2].role = "user"
  /\ after[Len(before) + 2].content = text

\* C30: a turn with a confirmed launch_app(n) adds three messages to the
\* conversation, the assistant message, the system message with the usage
\* prompt of the app registered under n and the user message "Launched app: n",
\* in this order; every other turn that succeeds adds the assistant message and
\* the result message and nothing else.
C30_TurnGrowth ==
  [][(last'.op = "turn" /\ last'.transport = "reply" /\ last'.kind = "return"
        /\ last'.unpack = "done")
       => IF last'.action.type = "launch_app" /\ last'.answer = "accept"
          THEN conversation' = conversation \o LaunchGrowth(last'.action)
          ELSE ResultGrowth(conversation, conversation', last'.action, last'.text)]_vars

\* C30: the state the code reaches instead: after the launch of ssh, which
\* added three messages, the confirmed ssh action with no commands succeeded
\* and added the assistant message alone.
C30_Reached ==
  /\ Len(turns) = 2
  /\ turns[1].action = LaunchAppAction("ssh")
  /\ turns[1].answer = "accept"
  /\ turns[2].action = SSHAction(<<>>)
  /\ turns[2].kind = "return"
  /\ last.unpack = "done"
  /\ last.len = Len(conversation) - 1
  /\ conversation[Len(conversation) - 1] = Msg("user", <<"Launched app: ", "ssh">>, None)
  /\ conversation[Len(conversation) - 2] = Msg("system", usage_prompt("s1", page), None)
  /\ conversation[Len(conversation)] = AssistantMsg(SSHAction(<<>>))

\* the rest of C30, which the code keeps: the same for a result text that is
\* not empty
TurnGrowthWithText ==
  [][(last'.op = "turn" /\ last'.transport = "reply" /\ last'.kind = "return"
        /\ last'.unpack = "done" /\ last'.text # <<>>)
       => IF last'.action.type = "launch_app" /\ last'.answer = "accept"
          THEN conversation' = conversation \o LaunchGrowth(last'.action)
          ELSE ResultGrowth(conversation, conversation', last'.action, last'.text)]_vars

\* C31: with all registration done before run, after any turns (confirmed,
\* declined or failed) current_app is None or an app object that OS.apps holds
\* under that object's own name.
C31_CurrentAppRegistered ==
  current_app # None =>
    \E i \in 1..Len(apps) :
      /\ apps[i].app = current_app
      /\ apps[i].name = AppName(current_app)

\* C31 witness: echo was registered as the second of two apps, launched in a
\* confirmed turn, and a declined turn followed; current_app is the registered
\* echo object.
C31_Witness ==
  /\ pc = "loop"
  /\ Len(apps) = 2
  /\ apps[2] = [name |-> "echo", app |-> "e2"]
  /\ Len(turns) = 2
  /\ turns[1].action = LaunchAppAction("echo")
  /\ turns[1].answer = "accept"
  /\ turns[2].answer = "decline"
  /\ current_app = "e2"

\* no entry of a sequence occurs twice
NoRepeat(seq) == \A i, j \in 1..Len(seq) : seq[i] = seq[j] => i = j

\* C32: the registry is keyed by app name.  Every register_app call leaves at
\* most one app per name: an app of a new name is added at the end, an app of a
\* registered name takes the place of the one registered before and the other
\* entries stay; and the names the home schema lists are the registered names,
\* none of them twice.
C32_RegistryKeyedByName ==
  [][last'.op = "register" =>
       /\ NoRepeat(Keys(apps'))
       /\ current_response_format(apps', None).action[1].literals = Keys(apps')
       /\ NoRepeat(current_response_format(apps', None).action[1].literals)
       /\ \E app \in AppObjs :
            /\ \E k \in 1..Len(apps') : apps'[k] = [name |-> AppName(app), app |-> app]
            /\ IF AppName(app) \in Range(Keys(apps))
               THEN /\ Keys(apps') = Keys(apps)
                    /\ \A i \in 1..Len(apps) :
                         apps[i].name # AppName(app) => apps'[i] = apps[i]
               ELSE apps' = Append(apps, [name |-> AppName(app), app |-> app])]_vars

\* C32 witness: the echo object e1 was registered and launched, then e2 was
\* registered under the same name: the registry holds e2 alone under "echo",
\* next to ssh.
C32_Witness ==
  /\ last.op = "register"
  /\ current_app = "e1"
  /\ Len(apps) = 2
  /\ \E k \in 1..2 : apps[k] = [name |-> "echo", app |-> "e2"]
  /\ \E k \in 1..2 : apps[k] = [name |-> "ssh", app |-> "s1"]


(***************************************************************************)
(* C33: BrowserApp.click_element with an element number below 1 or above   *)
(* the number of clickable elements of the page raises ValueError, clicks  *)
(* nothing, navigates nowhere and leaves the page as it was; with a number *)
(* in range it acts on the element at that 1-based position: it navigates  *)
(* to the element's href resolved against the page's URL when the element  *)
(* has one (and clicks nothing), and clicks that element otherwise (and    *)
(* navigates nowhere).                                                     *)
(***************************************************************************)
C33_ClickElementRange ==
  [][(browser_frame'.op = "click" /\ browser_frame'.calls = browser_frame.calls + 1) =>
       LET n == browser_frame'.element
           elements == PageElements(page)
       IN /\ browser_frame'.before = page
          /\ IF n < 1 \/ n > Len(elements)
             THEN /\ browser_frame'.kind = "raise"
                  /\ browser_frame'.exc = "ValueError"
                  /\ browser_frame'.clicked = 0
                  /\ browser_frame'.goto = ""
                  /\ page' = page
             ELSE IF elements[n] # ""
             THEN /\ browser_frame'.clicked = 0
                  /\ browser_frame'.goto = urljoin(page, elements[n])
                  /\ browser_frame'.goto \in Urls
                  /\ browser_frame'.kind = "return" => page' = browser_frame'.goto
             ELSE /\ browser_frame'.clicked = n
                  /\ browser_frame'.goto = ""]_vars

\* on a page with two clickable elements, element 3 was asked for after a link
\* of that page had been reached by navigating
C33_Witness ==
  /\ browser_frame.op = "click"
  /\ browser_frame.calls = 2
  /\ browser_frame.before = "u2"
  /\ Len(PageElements(browser_frame.before)) = 2
  /\ browser_frame.element = 3
  /\ browser_frame.exc = "ValueError"
  /\ browser_frame.clicked = 0
  /\ page = "u2"

\* the other cases of click_element: a link followed, a button clicked
C33_LinkFollowed ==
  /\ browser_frame.op = "click" /\ browser_frame.before = "u2" /\ browser_frame.element = 1
  /\ browser_frame.kind = "return" /\ browser_frame.goto = "u1" /\ page = "u1"

C33_ButtonClicked ==
  /\ browser_frame.op = "click" /\ browser_frame.before = "u2" /\ browser_frame.element = 2
  /\ browser_frame.kind = "return" /\ browser_frame.clicked = 2 /\ page = "u2"


(***************************************************************************)
(* C34: every call of SSHApp._execute_ssh_command closes the client it     *)
(* created exactly once before it returns, on every path: after the remote *)
(* command's exit status, after a failure to connect, and after an         *)
(* exception while reading output; a call that has returned holds no open  *)
(* connection.  Until the finally clause the client has not been closed.   *)
(***************************************************************************)
C34_ClientClosedOnce ==
  /\ exec_frame.closed \in {0, 1}
  /\ exec_frame.at \in {"return", "returned"} <=> exec_frame.closed = 1
  /\ exec_frame.at = "returned" => ~exec_frame.connected
  /\ exec_frame.connected => exec_frame.remote.connects /\ exec_frame.closed = 0

\* a call that returned through an exception while reading output
C34_Witness ==
  /\ pc = "exec"
  /\ exec_frame.at = "returned"
  /\ exec_frame.remote.connects
  /\ exec_frame.raised
  /\ exec_frame.left = "exception"
  /\ exec_frame.closed = 1
  /\ ~exec_frame.connected

\* the other paths: the remote command's exit status, a failure to connect
C34_ClosedAfterStatus ==
  /\ exec_frame.at = "returned" /\ exec_frame.left = "status" /\ ~exec_frame.raised
  /\ exec_frame.closed = 1 /\ ~exec_frame.connected

C34_ClosedAfterConnectFailure ==
  /\ exec_frame.at = "returned" /\ ~exec_frame.remote.connects /\ exec_frame.raised
  /\ exec_frame.closed = 1 /\ ~exec_frame.connected

====
